---- MODULE Spec2Model ----
(***************************************************************************)
(* Message-processing pipeline of the WhatsApp voice tool.                 *)
(*                                                                         *)
(* A run is one invocation of process_single_record / process_message on   *)
(* one delivered webhook payload.  Every await of process_message on an    *)
(* external service (customer lookup, Twilio, transcription, LLM) is a     *)
(* step of the run, and so is each boto3 call of S3Service (head_object,   *)
(* put_object): the bucket is shared by all invocations, which the host    *)
(* (SQS / Lambda) may run one after the other or at the same time.         *)
(***************************************************************************)
EXTENDS Integers, Sequences, FiniteSets, TLC

\* ---------------------------------------------------------------- bounds
\* number of deliveries (invocations of process_single_record) explored
MaxRuns == 2

Runs == 1..MaxRuns

\* ------------------------------------------------------------- constants
None == "None"

\* MessageIntent values
JOB_TO_BE_DONE == "job-to-be-done"
KNOWLEDGE_DOCUMENT == "knowledge-document"
INTENT_OTHER == "other"
MessageIntent == {JOB_TO_BE_DONE, KNOWLEDGE_DOCUMENT, INTENT_OTHER}

\* tags as the classifier proposes them, before validate_s3_key
RawTags == {"Leak Repair", "?!"}

\* the customer directory behind CustomerLookupClient: phone -> company_id
KnownPhones == {"whatsapp:+61400000001"}
CompanyOf(phone) == "company-a"

\* ------------------------------------------------------- webhook payloads
\* TwilioWebhookPayload, the fields process_message reads
TextPayload ==
  [MessageSid |-> "SM00000001", From |-> "whatsapp:+61400000001",
   Body |-> "order copper fittings", MessageType |-> None,
   NumMedia |-> "0", MediaContentType0 |-> None, MediaUrl0 |-> None]
AudioPayload ==
  [MessageSid |-> "MM00000002", From |-> "whatsapp:+61400000001",
   Body |-> None, MessageType |-> None,
   NumMedia |-> "1", MediaContentType0 |-> "audio/ogg", MediaUrl0 |-> "https://media/2"]
ImagePayload ==
  [MessageSid |-> "MM00000003", From |-> "whatsapp:+61400000001",
   Body |-> None, MessageType |-> None,
   NumMedia |-> "1", MediaContentType0 |-> "image/jpeg", MediaUrl0 |-> "https://media/3"]
\* declared as audio by the provider, but without any attachment
AudioNoMediaPayload ==
  [MessageSid |-> "MM00000004", From |-> "whatsapp:+61400000001",
   Body |-> None, MessageType |-> "audio",
   NumMedia |-> "0", MediaContentType0 |-> None, MediaUrl0 |-> None]
\* declared as text by the provider, without a Body field
NoBodyPayload ==
  [MessageSid |-> "SM00000007", From |-> "whatsapp:+61400000001",
   Body |-> None, MessageType |-> "text",
   NumMedia |-> "0", MediaContentType0 |-> None, MediaUrl0 |-> None]
\* a sender the customer directory does not know
StrangerPayload ==
  [MessageSid |-> "SM00000005", From |-> "whatsapp:+61499999999",
   Body |-> "hello", MessageType |-> "text",
   NumMedia |-> "0", MediaContentType0 |-> None, MediaUrl0 |-> None]
\* a payload whose From field is the empty string
NoSenderPayload ==
  [MessageSid |-> "SM00000006", From |-> "",
   Body |-> "hello", MessageType |-> None,
   NumMedia |-> "0", MediaContentType0 |-> None, MediaUrl0 |-> None]
\* a text message whose body is the empty string
EmptyBodyPayload ==
  [MessageSid |-> "SM00000008", From |-> "whatsapp:+61400000001",
   Body |-> "", MessageType |-> None,
   NumMedia |-> "0", MediaContentType0 |-> None, MediaUrl0 |-> None]

Payloads == {TextPayload, AudioPayload, ImagePayload, AudioNoMediaPayload,
             NoBodyPayload, StrangerPayload, NoSenderPayload, EmptyBodyPayload}
NoPayload == [MessageSid |-> None]

\* ---------------------------------------------------------------- strings
StartsWith(s, p) == Len(s) >= Len(p) /\ SubSeq(s, 1, Len(p)) = p

EndsWith(s, p) == Len(s) >= Len(p) /\ SubSeq(s, Len(s) - Len(p) + 1, Len(s)) = p

\* the i-th character of a string
Char(s, i) == SubSeq(s, i, i)

\* p in s
Contains(s, p) == \E i \in 1..(Len(s) - Len(p) + 1) : SubSeq(s, i, i + Len(p) - 1) = p

\* n copies of s in a row
RECURSIVE Repeat(_, _)
Repeat(s, n) ==
  IF n = 0 THEN ""
  ELSE LET half == Repeat(s, n \div 2)
       IN half \o half \o (IF n % 2 = 1 THEN s ELSE "")

\* ------------------------------------------------------------ characters
UpperCase == "ABCDEFGHIJKLMNOPQRSTUVWXYZ"
LowerCase == "abcdefghijklmnopqrstuvwxyz"
Digits == "0123456789"

\* c is one of the characters of the string chars
IsIn(c, chars) == \E i \in 1..Len(chars) : Char(chars, i) = c

\* [a-z0-9]
IsAlnum(c) == IsIn(c, LowerCase) \/ IsIn(c, Digits)

\* the characters str.strip() and \s take for white space, as far as the
\* tags examined contain them
Whitespace == {" "}

\* str.lower, of one character and of a string
lower_char(c) ==
  IF IsIn(c, UpperCase)
    THEN Char(LowerCase, CHOOSE i \in 1..Len(UpperCase) : Char(UpperCase, i) = c)
    ELSE c

RECURSIVE lower(_)
lower(s) ==
  IF s = "" THEN "" ELSE lower_char(Char(s, 1)) \o lower(SubSeq(s, 2, Len(s)))

\* ------------------------------------------------------- payload accessors
\* int() of a string of decimal digits
RECURSIVE int(_)
int(s) ==
  IF s = "" THEN 0
  ELSE 10 * int(SubSeq(s, 1, Len(s) - 1))
       + (CHOOSE d \in 0..9 : Char(Digits, d + 1) = Char(s, Len(s)))

\* truth value of an Optional[str]: None and "" are false
Truthy(v) == v # None /\ v # ""

\* mutant: the attachment is looked at before the declared type
get_message_type_sniffsFirst(p) ==
  IF int(p.NumMedia) # 0 /\ Truthy(p.MediaContentType0)
    THEN IF StartsWith(lower(p.MediaContentType0), "audio/") THEN "audio"
         ELSE IF StartsWith(lower(p.MediaContentType0), "image/") THEN "image"
         ELSE IF StartsWith(lower(p.MediaContentType0), "video/") THEN "video"
         ELSE "document"
  ELSE IF Truthy(p.MessageType)
          /\ lower(p.MessageType) \in {"text", "audio", "image", "video", "document"}
    THEN lower(p.MessageType)
  ELSE "text"

\* TwilioWebhookPayload.get_message_type
get_message_type(p) ==
  LET msg_type == IF Truthy(p.MessageType) THEN lower(p.MessageType) ELSE None
      content_type == IF Truthy(p.MediaContentType0)
                        THEN lower(p.MediaContentType0) ELSE None
  IN IF msg_type \in {"text", "audio", "image", "video", "document"} THEN msg_type
     ELSE IF msg_type = "file" THEN "document"
     ELSE IF int(p.NumMedia) = 0 THEN "text"
     ELSE IF content_type # None
       THEN IF StartsWith(content_type, "audio/") THEN "audio"
            ELSE IF StartsWith(content_type, "image/") THEN "image"
            ELSE IF StartsWith(content_type, "video/") THEN "video"
            ELSE "document"
     ELSE "unknown"

\* TwilioWebhookPayload.get_media_url
get_media_url(p) == IF int(p.NumMedia) > 0 THEN p.MediaUrl0 ELSE None

\* TwilioWebhookPayload.get_phone_number
get_phone_number(p) == p.From

\* -------------------------------------------------------- tag sanitization
\* str.lstrip / str.rstrip / str.strip of a set of characters
RECURSIVE lstrip(_, _)
lstrip(s, chars) ==
  IF s = "" THEN ""
  ELSE IF Char(s, 1) \in chars THEN lstrip(SubSeq(s, 2, Len(s)), chars)
  ELSE s

RECURSIVE rstrip(_, _)
rstrip(s, chars) ==
  IF s = "" THEN ""
  ELSE IF Char(s, Len(s)) \in chars THEN rstrip(SubSeq(s, 1, Len(s) - 1), chars)
  ELSE s

strip(s, chars) == rstrip(lstrip(s, chars), chars)

\* re.sub(r'[\s_]+', '-', s): every run of white space and underscores
\* becomes one hyphen
RECURSIVE sub_runs(_)
sub_runs(s) ==
  IF s = "" THEN ""
  ELSE IF Char(s, 1) \in Whitespace \cup {"_"}
    THEN "-" \o sub_runs(lstrip(s, Whitespace \cup {"_"}))
  ELSE Char(s, 1) \o sub_runs(SubSeq(s, 2, Len(s)))

\* re.sub(r'[^a-z0-9\-.]', '', s): every other character is dropped
RECURSIVE sub_disallowed(_)
sub_disallowed(s) ==
  IF s = "" THEN ""
  ELSE (IF IsAlnum(Char(s, 1)) \/ Char(s, 1) \in {"-", "."} THEN Char(s, 1) ELSE "")
         \o sub_disallowed(SubSeq(s, 2, Len(s)))

\* mutant: the hyphens are stripped before the other characters are dropped
sanitized_stripsBeforeFilter(v) ==
  sub_disallowed(strip(sub_runs(strip(lower(v), Whitespace)), {"-"}))

\* the value of `sanitized` when validate_s3_key tests it
sanitized(v) == strip(sub_disallowed(sub_runs(strip(lower(v), Whitespace))), {"-"})

\* validate_s3_key raised ValueError (no tag contains "<")
Rejected == "<ValueError>"

\* mutant: an empty tag is replaced by a default
validate_s3_key_defaultsTag(v) ==
  IF sanitized(v) = "" THEN "unknown" ELSE sanitized(v)

\* MessageMetadata.validate_s3_key: the stored tag, or Rejected
validate_s3_key(v) ==
  IF sanitized(v) = "" THEN Rejected ELSE sanitized(v)

\* tags as MessageMetadata hands them out (through validate_s3_key)
Tags == {validate_s3_key(v) : v \in RawTags} \ {Rejected}

\* ------------------------------------------------------------ storage keys
\* mutant: the company is left out of the key
key_prefix_noCompany(company_id, intent, tag, message_id) ==
  intent \o "/" \o tag \o "_" \o message_id

\* key_prefix of process_message
key_prefix(company_id, intent, tag, message_id) ==
  company_id \o "/" \o intent \o "/" \o tag \o "_" \o message_id

\* mutant: the rendered document gets the suffix of the text
Suffix_summaryAsFullText(artifact) ==
  CASE artifact = "audio" -> "_audio.ogg"
    [] artifact = "full_text" -> "_full_text.txt"
    [] artifact = "text_summary" -> "_full_text.txt"

\* the suffix process_message appends for each artifact
Suffix(artifact) ==
  CASE artifact = "audio" -> "_audio.ogg"
    [] artifact = "full_text" -> "_full_text.txt"
    [] artifact = "text_summary" -> ".text_summary.txt"

Artifacts == {"audio", "full_text", "text_summary"}

\* the key process_message passes to S3Service.upload for an artifact
KeyOf(company_id, intent, tag, message_id, artifact) ==
  key_prefix(company_id, intent, tag, message_id) \o Suffix(artifact)

\* ------------------------------------------------------------------- state
VARIABLES
  pc,        \* pc[r]: the await or boto3 call run r is about to complete
  payload,   \* payload[r]: the webhook payload delivered to run r
  loc,       \* loc[r]: the local variables of process_message in run r
  calls,     \* calls[r]: the external calls run r has made, in order
  sent,      \* sent[r]: the messages Twilio accepted from run r, in order
  puts,      \* puts[r]: the keys run r has put to the bucket, in order
  outcome,   \* outcome[r]: the result record or the exception of run r
  bucket,    \* the S3 bucket: key -> stored body
  overwritten, \* keys on which a put_object replaced a stored object
  prior,     \* prior[r]: the runs that had ended when r started
  app        \* a function of the code applied on its own: arguments and result

\* the variables of the runs of process_message
pipeline == <<pc, payload, loc, calls, sent, puts, outcome, bucket, overwritten, prior>>

vars == <<pc, payload, loc, calls, sent, puts, outcome, bucket, overwritten, prior, app>>

NoLocals ==
  [company_id |-> None, message_type |-> None, full_text |-> None,
   audio_data |-> None, intent |-> None, tag |-> None,
   structured_analysis |-> None, uploading |-> None, s3_keys |-> <<>>]

NoOutcome == [status |-> None, exc |-> None]

\* no function is being applied on its own
NoApp == [fn |-> None]

\* no invocation of process_message has begun
Idle ==
  /\ pc = [r \in Runs |-> "idle"]
  /\ payload = [r \in Runs |-> NoPayload]
  /\ loc = [r \in Runs |-> NoLocals]
  /\ calls = [r \in Runs |-> <<>>]
  /\ sent = [r \in Runs |-> <<>>]
  /\ puts = [r \in Runs |-> <<>>]
  /\ outcome = [r \in Runs |-> NoOutcome]
  /\ bucket = <<>>
  /\ overwritten = {}
  /\ prior = [r \in Runs |-> {}]

Init ==
  /\ Idle
  /\ app = NoApp

\* ---------------------------------------------------------- message bodies
AckBody == "Message received, processing..."
InformationalBody ==
  "Message received and processed. Note: This message was classified as informational only."
NoticeBody(message_type) ==
  "Messages of type " \o message_type \o " are not supported, please send text/audio."
AnalysisPrefix == "Successfully ingested the following items:"
\* the text of message_body before and after the rendered document
ReplyPrefix == AnalysisPrefix \o "\n\n"
ReplySuffix == "\n\nNote: Replies to this message are treated as new requests.\n"
AnalysisBody(formatted_text) == ReplyPrefix \o formatted_text \o ReplySuffix

\* ---------------------------------------------------- structured documents
\* get_structured_document_model: the document class of an intent
get_structured_document_model(intent) ==
  IF intent = JOB_TO_BE_DONE THEN "JobsToBeDoneDocumentModel"
  ELSE IF intent = KNOWLEDGE_DOCUMENT THEN "KnowledgeDocumentModel"
  ELSE None

\* StructuredDocumentModel.WHATSAPP_CHAR_LIMIT
WHATSAPP_CHAR_LIMIT == 1600

\* chr(10).join of the bulleted action items; the bullet (U+2022, one
\* character) is written "*"
RECURSIVE BulletList(_)
BulletList(action_items) ==
  IF action_items = <<>> THEN ""
  ELSE "* " \o Head(action_items)
         \o (IF Len(action_items) > 1
               THEN "\n" \o BulletList(Tail(action_items)) ELSE "")

\* JobsToBeDoneDocumentModel.format / KnowledgeDocumentModel.format
format(doc) ==
  IF doc.class = "JobsToBeDoneDocumentModel"
    THEN "*Summary:*\n" \o doc.summary \o "\n\n*Job:*\n" \o doc.job
           \o "\n\n*Context:*\n" \o doc.context
           \o "\n\n*Action Items:*\n" \o BulletList(doc.action_items) \o "\n"
    ELSE "*Title:*\n" \o doc.title \o "\n\n*Summary:*\n" \o doc.summary
           \o "\n\n*Context:*\n" \o doc.context \o "\n"

\* JobsToBeDoneDocumentModel.format_truncated /
\* KnowledgeDocumentModel.format_truncated
format_truncated(doc) ==
  IF doc.class = "JobsToBeDoneDocumentModel"
    THEN "*Summary:*\n" \o doc.summary
           \o "\n\n*Action Items:*\n" \o BulletList(doc.action_items)
           \o "\n\n---\nRest of job information truncated.\n"
    ELSE "*Title:*\n" \o doc.title \o "\n\n*Summary:*\n" \o doc.summary
           \o "\n\n---\nRest of knowledge document truncated.\n"

\* the minimal confirmation of format_for_whatsapp
MinimalConfirmation(tag) == "Successfully uploaded: " \o tag

\* StructuredDocumentModel.format_for_whatsapp
format_for_whatsapp(doc, tag, prefix, suffix) ==
  LET full_message == prefix \o format(doc) \o suffix
      truncated_message == prefix \o format_truncated(doc) \o suffix
      minimal == MinimalConfirmation(tag)
  IN IF Len(full_message) <= WHATSAPP_CHAR_LIMIT THEN full_message
     ELSE IF Len(truncated_message) <= WHATSAPP_CHAR_LIMIT THEN truncated_message
     ELSE IF Len(prefix \o minimal \o suffix) <= WHATSAPP_CHAR_LIMIT
       THEN prefix \o minimal \o suffix
     ELSE minimal

\* the documents the extractor answers with in the runs of process_message
Document(structured_analysis) ==
  IF structured_analysis = "JobsToBeDoneDocumentModel"
    THEN [class |-> "JobsToBeDoneDocumentModel",
          summary |-> "Copper fittings are needed for the leak repair.",
          job |-> "Leak repair at unit 4",
          context |-> "The kitchen pipe leaks at the joint.",
          action_items |-> <<"Order copper fittings", "Book the repair">>]
    ELSE [class |-> "KnowledgeDocumentModel",
          title |-> "Sealing copper joints",
          summary |-> "Clean and flux the joint before soldering.",
          context |-> "Applies to every copper pipe repair."]

\* structured_analysis.format() of the document the extractor returned
Format(structured_analysis) == format(Document(structured_analysis))

\* str.encode("utf-8") of a text
Encode(text) == "utf8:" \o text

\* what the transcription service answers for the audio of a media URL
Transcript(audio_data) == "transcript of " \o audio_data

\* ------------------------------------------------------------ run plumbing
Range(seq) == {seq[i] : i \in 1..Len(seq)}

\* how many calls of run r went to the named operation
CountCalls(r, name) == Cardinality({i \in 1..Len(calls[r]) : calls[r][i][1] = name})

Called(r, name) == CountCalls(r, name) > 0

LastCall(r) == calls[r][Len(calls[r])]

Call(r, name, arg) == calls' = [calls EXCEPT ![r] = Append(@, <<name, arg>>)]

\* an exception leaves process_message; process_single_record reports "failed"
Raise(r, exc) ==
  /\ pc' = [pc EXCEPT ![r] = "raised"]
  /\ outcome' = [outcome EXCEPT ![r] = [status |-> "failed", exc |-> exc]]

\* process_message returns a result record with the given status
Return(r, status) ==
  /\ pc' = [pc EXCEPT ![r] = "returned"]
  /\ outcome' = [outcome EXCEPT ![r] = [status |-> status, exc |-> None]]

Goto(r, label) ==
  /\ pc' = [pc EXCEPT ![r] = label]
  /\ UNCHANGED outcome

message_id(r) == payload[r].MessageSid

\* the key of the artifact run r is uploading
UploadKey(r, artifact) ==
  KeyOf(loc[r].company_id, loc[r].intent, loc[r].tag, message_id(r), artifact)

\* the data argument of the upload of an artifact
UploadData(r, artifact) ==
  CASE artifact = "audio" -> loc[r].audio_data
    [] artifact = "full_text" -> Encode(loc[r].full_text)
    [] artifact = "text_summary" -> Encode(Format(loc[r].structured_analysis))

\* mutant: the text is uploaded first, whatever the message type
FirstArtifact_textFirst(message_type) == "full_text"

\* the first upload of process_message: audio for an audio message
FirstArtifact(message_type) ==
  IF message_type = "audio" THEN "audio" ELSE "full_text"

\* mutant: the rendered document is never stored
NextArtifact_noSummary(artifact, structured_analysis) ==
  CASE artifact = "audio" -> "full_text"
    [] artifact = "full_text" -> None
    [] artifact = "text_summary" -> None

\* the upload that follows a finished one; None: go on to the final reply
NextArtifact(artifact, structured_analysis) ==
  CASE artifact = "audio" -> "full_text"
    [] artifact = "full_text" ->
         IF structured_analysis # None THEN "text_summary" ELSE None
    [] artifact = "text_summary" -> None

\* process_message enters S3Service.upload for an artifact: the arguments are
\* evaluated first (full_text.encode raises on a None body)
BeginUpload(r, l, artifact) ==
  IF artifact = "full_text" /\ l.full_text = None
    THEN /\ Raise(r, "AttributeError")
         /\ loc' = [loc EXCEPT ![r] = l]
    ELSE /\ Goto(r, "head_object")
         /\ loc' = [loc EXCEPT ![r] = [l EXCEPT !.uploading = artifact]]

\* mutant: the overwrite flag is read the wrong way round
upload_rejects_invertedFlag(exists, overwrite) == exists /\ overwrite

\* mutant: the existence check never rejects
upload_rejects_never(exists, overwrite) == FALSE

\* S3Service.upload: the existence check rejects the upload
upload_rejects(exists, overwrite) == exists /\ ~overwrite

\* ------------------------------------------------- process_message, by step
\* The host hands a payload to process_single_record, which calls
\* process_message: the sender's number is read and the lookup is awaited.
Deliver(r, p) ==
  /\ pc[r] = "idle"
  /\ IF r = 1 THEN TRUE ELSE pc[r - 1] # "idle"
  /\ payload' = [payload EXCEPT ![r] = p]
  /\ prior' = [prior EXCEPT ![r] = {q \in Runs : pc[q] \in {"returned", "raised"}}]
  /\ IF get_phone_number(p) = ""
       THEN Raise(r, "ValueError")
       ELSE Goto(r, "lookup")
  /\ UNCHANGED <<loc, calls, sent, puts, bucket, overwritten, app>>

\* fetch_customer_metadata answers; the acknowledgement is sent next
LookupReturns(r) ==
  /\ pc[r] = "lookup"
  /\ get_phone_number(payload[r]) \in KnownPhones
  /\ Call(r, "fetch_customer_metadata", None)
  /\ loc' = [loc EXCEPT ![r].company_id = CompanyOf(get_phone_number(payload[r])),
                         ![r].message_type = get_message_type(payload[r])]
  /\ Goto(r, "ack")
  /\ UNCHANGED <<payload, sent, puts, bucket, overwritten, prior, app>>

\* mutant: the lookup failure is swallowed and the run goes on
LookupRaises_swallowed(r) ==
  /\ pc[r] = "lookup"
  /\ Call(r, "fetch_customer_metadata", None)
  /\ Goto(r, "ack")
  /\ UNCHANGED <<payload, loc, sent, puts, bucket, overwritten, prior, app>>

\* fetch_customer_metadata raises (unknown number, bad status, transport)
LookupRaises(r) ==
  /\ pc[r] = "lookup"
  /\ Call(r, "fetch_customer_metadata", None)
  /\ Raise(r, "ValueError")
  /\ UNCHANGED <<payload, loc, sent, puts, bucket, overwritten, prior, app>>

\* mutant: no acknowledgement for a message the bucket already knows
AckReturns_oncePerMessage(r) ==
  /\ pc[r] = "ack"
  /\ Call(r, "send_message", "ack")
  /\ sent' = [sent EXCEPT ![r] =
                IF \E key \in DOMAIN bucket : Contains(key, payload[r].MessageSid)
                  THEN @ ELSE Append(@, AckBody)]
  /\ CASE loc[r].message_type = "text" ->
            /\ loc' = [loc EXCEPT ![r].full_text = payload[r].Body]
            /\ Goto(r, "classify")
       [] loc[r].message_type = "audio" ->
            /\ IF get_media_url(payload[r]) = None
                 THEN Raise(r, "ValueError")
                 ELSE Goto(r, "download")
            /\ UNCHANGED loc
       [] OTHER ->
            /\ Goto(r, "notice")
            /\ UNCHANGED loc
  /\ UNCHANGED <<payload, puts, bucket, overwritten, prior, app>>

\* mutant: only text and audio messages are acknowledged
AckReturns_supportedOnly(r) ==
  /\ pc[r] = "ack"
  /\ CASE loc[r].message_type = "text" ->
            /\ Call(r, "send_message", "ack")
            /\ sent' = [sent EXCEPT ![r] = Append(@, AckBody)]
            /\ loc' = [loc EXCEPT ![r].full_text = payload[r].Body]
            /\ Goto(r, "classify")
       [] loc[r].message_type = "audio" ->
            /\ Call(r, "send_message", "ack")
            /\ sent' = [sent EXCEPT ![r] = Append(@, AckBody)]
            /\ IF get_media_url(payload[r]) = None
                 THEN Raise(r, "ValueError")
                 ELSE Goto(r, "download")
            /\ UNCHANGED loc
       [] OTHER ->
            /\ Goto(r, "notice")
            /\ UNCHANGED <<loc, calls, sent>>
  /\ UNCHANGED <<payload, puts, bucket, overwritten, prior, app>>

\* mutant: an empty body counts as no body
AckReturns_emptyBodyIsNone(r) ==
  /\ pc[r] = "ack"
  /\ Call(r, "send_message", "ack")
  /\ sent' = [sent EXCEPT ![r] = Append(@, AckBody)]
  /\ CASE loc[r].message_type = "text" ->
            /\ loc' = [loc EXCEPT ![r].full_text =
                         IF Truthy(payload[r].Body) THEN payload[r].Body ELSE None]
            /\ Goto(r, "classify")
       [] loc[r].message_type = "audio" ->
            /\ IF get_media_url(payload[r]) = None
                 THEN Raise(r, "ValueError")
                 ELSE Goto(r, "download")
            /\ UNCHANGED loc
       [] OTHER ->
            /\ Goto(r, "notice")
            /\ UNCHANGED loc
  /\ UNCHANGED <<payload, puts, bucket, overwritten, prior, app>>

\* the acknowledgement went out; the message type selects the branch
AckReturns(r) ==
  /\ pc[r] = "ack"
  /\ Call(r, "send_message", "ack")
  /\ sent' = [sent EXCEPT ![r] = Append(@, AckBody)]
  /\ CASE loc[r].message_type = "text" ->
            /\ loc' = [loc EXCEPT ![r].full_text = payload[r].Body]
            /\ Goto(r, "classify")
       [] loc[r].message_type = "audio" ->
            /\ IF get_media_url(payload[r]) = None
                 THEN Raise(r, "ValueError")
                 ELSE Goto(r, "download")
            /\ UNCHANGED loc
       [] OTHER ->
            /\ Goto(r, "notice")
            /\ UNCHANGED loc
  /\ UNCHANGED <<payload, puts, bucket, overwritten, prior, app>>

\* send_message raises on the acknowledgement
AckRaises(r) ==
  /\ pc[r] = "ack"
  /\ Call(r, "send_message", "ack")
  /\ Raise(r, "HTTPStatusError")
  /\ UNCHANGED <<payload, loc, sent, puts, bucket, overwritten, prior, app>>

\* download_media answers with the audio bytes
DownloadReturns(r) ==
  /\ pc[r] = "download"
  /\ Call(r, "download_media", None)
  /\ loc' = [loc EXCEPT ![r].audio_data = "ogg from " \o get_media_url(payload[r])]
  /\ Goto(r, "transcribe")
  /\ UNCHANGED <<payload, sent, puts, bucket, overwritten, prior, app>>

\* download_media raises
DownloadRaises(r) ==
  /\ pc[r] = "download"
  /\ Call(r, "download_media", None)
  /\ Raise(r, "HTTPStatusError")
  /\ UNCHANGED <<payload, loc, sent, puts, bucket, overwritten, prior, app>>

\* transcribe answers with the text of the audio
TranscribeReturns(r) ==
  /\ pc[r] = "transcribe"
  /\ Call(r, "transcribe", None)
  /\ loc' = [loc EXCEPT ![r].full_text = Transcript(loc[r].audio_data)]
  /\ Goto(r, "classify")
  /\ UNCHANGED <<payload, sent, puts, bucket, overwritten, prior, app>>

\* mutant: the downloaded audio is stored before the transcription is awaited
TranscribeRaises_keepsAudio(r) ==
  /\ pc[r] = "transcribe"
  /\ calls' = [calls EXCEPT ![r] =
                 @ \o << <<"put_object", "audio">>, <<"transcribe", None>> >>]
  /\ puts' = [puts EXCEPT ![r] = Append(@, UploadKey(r, "audio"))]
  /\ bucket' = (UploadKey(r, "audio") :> loc[r].audio_data) @@ bucket
  /\ Raise(r, "TranscriptionError")
  /\ UNCHANGED <<payload, loc, sent, overwritten, prior, app>>

\* transcribe raises
TranscribeRaises(r) ==
  /\ pc[r] = "transcribe"
  /\ Call(r, "transcribe", None)
  /\ Raise(r, "TranscriptionError")
  /\ UNCHANGED <<payload, loc, sent, puts, bucket, overwritten, prior, app>>

\* mutant: the return after the notice is missing
NoticeReturns_fallsThrough(r) ==
  /\ pc[r] = "notice"
  /\ Call(r, "send_message", "notice")
  /\ sent' = [sent EXCEPT ![r] = Append(@, NoticeBody(loc[r].message_type))]
  /\ Goto(r, "classify")
  /\ UNCHANGED <<payload, loc, puts, bucket, overwritten, prior, app>>

\* the unsupported-type notice went out: the run returns "ignored"
NoticeReturns(r) ==
  /\ pc[r] = "notice"
  /\ Call(r, "send_message", "notice")
  /\ sent' = [sent EXCEPT ![r] = Append(@, NoticeBody(loc[r].message_type))]
  /\ Return(r, "ignored")
  /\ UNCHANGED <<payload, loc, puts, bucket, overwritten, prior, app>>

\* send_message raises on the notice
NoticeRaises(r) ==
  /\ pc[r] = "notice"
  /\ Call(r, "send_message", "notice")
  /\ Raise(r, "HTTPStatusError")
  /\ UNCHANGED <<payload, loc, sent, puts, bucket, overwritten, prior, app>>

\* mutant: the extractor is awaited whatever the intent
ClassifyReturns_alwaysExtracts(r, intent, raw_tag) ==
  /\ pc[r] = "classify"
  /\ validate_s3_key(raw_tag) # Rejected
  /\ Call(r, "extract_message_metadata", raw_tag)
  /\ loc' = [loc EXCEPT ![r] = [loc[r] EXCEPT !.intent = intent,
                                               !.tag = validate_s3_key(raw_tag)]]
  /\ Goto(r, "extract")
  /\ UNCHANGED <<payload, sent, puts, bucket, overwritten, prior, app>>

\* extract_message_metadata answers with a MessageMetadata whose tag passed
\* validate_s3_key; the extractor is awaited for the two structured intents,
\* otherwise the uploads begin
ClassifyReturns(r, intent, raw_tag) ==
  /\ pc[r] = "classify"
  /\ validate_s3_key(raw_tag) # Rejected
  /\ Call(r, "extract_message_metadata", raw_tag)
  /\ LET l == [loc[r] EXCEPT !.intent = intent, !.tag = validate_s3_key(raw_tag)]
     IN IF intent \in {JOB_TO_BE_DONE, KNOWLEDGE_DOCUMENT}
          THEN /\ loc' = [loc EXCEPT ![r] = l]
               /\ Goto(r, "extract")
          ELSE BeginUpload(r, l, FirstArtifact(l.message_type))
  /\ UNCHANGED <<payload, sent, puts, bucket, overwritten, prior, app>>

\* the classifier's answer fails the validation of MessageMetadata inside
\* chat.completions.parse: validate_s3_key raised on the proposed tag
ClassifyRejectsTag(r, raw_tag) ==
  /\ pc[r] = "classify"
  /\ validate_s3_key(raw_tag) = Rejected
  /\ Call(r, "extract_message_metadata", raw_tag)
  /\ Raise(r, "ValidationError")
  /\ UNCHANGED <<payload, loc, sent, puts, bucket, overwritten, prior, app>>

\* mutant: a failed classification is tried once more
ClassifyRaises_retries(r) ==
  /\ pc[r] = "classify"
  /\ Call(r, "extract_message_metadata", None)
  /\ IF ~Called(r, "extract_message_metadata")
       THEN Goto(r, "classify")
       ELSE Raise(r, "ValueError")
  /\ UNCHANGED <<payload, loc, sent, puts, bucket, overwritten, prior, app>>

\* extract_message_metadata raises without an answer: API error or refusal
ClassifyRaises(r) ==
  /\ pc[r] = "classify"
  /\ Call(r, "extract_message_metadata", None)
  /\ Raise(r, "ValueError")
  /\ UNCHANGED <<payload, loc, sent, puts, bucket, overwritten, prior, app>>

\* structure_full_text answers with the document of the intent's class
ExtractReturns(r) ==
  /\ pc[r] = "extract"
  /\ Call(r, "structure_full_text", None)
  /\ LET l == [loc[r] EXCEPT !.structured_analysis =
                                get_structured_document_model(loc[r].intent)]
     IN BeginUpload(r, l, FirstArtifact(l.message_type))
  /\ UNCHANGED <<payload, sent, puts, bucket, overwritten, prior, app>>

\* structure_full_text raises
ExtractRaises(r) ==
  /\ pc[r] = "extract"
  /\ Call(r, "structure_full_text", None)
  /\ Raise(r, "ValueError")
  /\ UNCHANGED <<payload, loc, sent, puts, bucket, overwritten, prior, app>>

\* S3Service.exists inside upload: head_object answers (found or 404)
HeadObject(r) ==
  /\ pc[r] = "head_object"
  /\ Call(r, "head_object", loc[r].uploading)
  /\ IF upload_rejects(UploadKey(r, loc[r].uploading) \in DOMAIN bucket, FALSE)
       THEN Raise(r, "FileExistsError")
       ELSE Goto(r, "put_object")
  /\ UNCHANGED <<payload, loc, sent, puts, bucket, overwritten, prior, app>>

\* head_object fails with a ClientError other than 404
HeadObjectRaises(r) ==
  /\ pc[r] = "head_object"
  /\ Call(r, "head_object", loc[r].uploading)
  /\ Raise(r, "ClientError")
  /\ UNCHANGED <<payload, loc, sent, puts, bucket, overwritten, prior, app>>

\* put_object stores the artifact; upload returns the key, which goes into
\* s3_keys; the next upload is entered, or the final reply is sent
PutObject(r) ==
  /\ pc[r] = "put_object"
  /\ Call(r, "put_object", loc[r].uploading)
  /\ LET artifact == loc[r].uploading
         key == UploadKey(r, artifact)
         l == [loc[r] EXCEPT !.s3_keys = Append(@, <<artifact, key>>)]
         next == NextArtifact(artifact, l.structured_analysis)
     IN /\ bucket' = (key :> UploadData(r, artifact)) @@ bucket
        /\ overwritten' = IF key \in DOMAIN bucket
                            THEN overwritten \cup {key} ELSE overwritten
        /\ puts' = [puts EXCEPT ![r] = Append(@, key)]
        /\ IF next # None
             THEN BeginUpload(r, l, next)
             ELSE /\ loc' = [loc EXCEPT ![r] = [l EXCEPT !.uploading = None]]
                  /\ Goto(r, "final")
  /\ UNCHANGED <<payload, sent, prior, app>>

\* mutant: the sender is told about the failed upload
PutObjectRaises_notifies(r) ==
  /\ pc[r] = "put_object"
  /\ calls' = [calls EXCEPT ![r] =
                 @ \o << <<"put_object", loc[r].uploading>>, <<"send_message", "error">> >>]
  /\ sent' = [sent EXCEPT ![r] = Append(@, "Processing failed")]
  /\ Raise(r, "ClientError")
  /\ UNCHANGED <<payload, loc, puts, bucket, overwritten, prior, app>>

\* mutant: a failing upload deletes what the run had stored
PutObjectRaises_rollsBack(r) ==
  /\ pc[r] = "put_object"
  /\ Call(r, "put_object", loc[r].uploading)
  /\ Raise(r, "ClientError")
  /\ bucket' = [key \in DOMAIN bucket \ Range(puts[r]) |-> bucket[key]]
  /\ UNCHANGED <<payload, loc, sent, puts, overwritten, prior, app>>

\* put_object fails
PutObjectRaises(r) ==
  /\ pc[r] = "put_object"
  /\ Call(r, "put_object", loc[r].uploading)
  /\ Raise(r, "ClientError")
  /\ UNCHANGED <<payload, loc, sent, puts, bucket, overwritten, prior, app>>

\* the body of the final reply
FinalBody(structured_analysis) ==
  IF structured_analysis # None
    THEN AnalysisBody(Format(structured_analysis))
    ELSE InformationalBody

\* mutant: the informational reply follows the analysis (missing else)
FinalReturns_sendsBoth(r) ==
  /\ pc[r] = "final"
  /\ calls' = [calls EXCEPT ![r] =
                 @ \o << <<"send_message", "final">>, <<"send_message", "final">> >>]
  /\ sent' = [sent EXCEPT ![r] =
                @ \o <<FinalBody(loc[r].structured_analysis), InformationalBody>>]
  /\ Return(r, "success")
  /\ UNCHANGED <<payload, loc, puts, bucket, overwritten, prior, app>>

\* the final reply went out: process_message returns the success record
FinalReturns(r) ==
  /\ pc[r] = "final"
  /\ Call(r, "send_message", "final")
  /\ sent' = [sent EXCEPT ![r] = Append(@, FinalBody(loc[r].structured_analysis))]
  /\ Return(r, "success")
  /\ UNCHANGED <<payload, loc, puts, bucket, overwritten, prior, app>>

\* send_message raises on the final reply
FinalRaises(r) ==
  /\ pc[r] = "final"
  /\ Call(r, "send_message", "final")
  /\ Raise(r, "HTTPStatusError")
  /\ UNCHANGED <<payload, loc, sent, puts, bucket, overwritten, prior, app>>

\* ------------------------------------------------------------ specification
Next ==
  \E r \in Runs :
    \/ \E p \in Payloads : Deliver(r, p)
    \/ LookupReturns(r)
    \/ LookupRaises(r)
    \/ AckReturns(r)
    \/ AckRaises(r)
    \/ DownloadReturns(r)
    \/ DownloadRaises(r)
    \/ TranscribeReturns(r)
    \/ TranscribeRaises(r)
    \/ NoticeReturns(r)
    \/ NoticeRaises(r)
    \/ \E intent \in MessageIntent, raw_tag \in RawTags :
          ClassifyReturns(r, intent, raw_tag)
    \/ \E raw_tag \in RawTags : ClassifyRejectsTag(r, raw_tag)
    \/ ClassifyRaises(r)
    \/ ExtractReturns(r)
    \/ ExtractRaises(r)
    \/ HeadObject(r)
    \/ HeadObjectRaises(r)
    \/ PutObject(r)
    \/ PutObjectRaises(r)
    \/ FinalReturns(r)
    \/ FinalRaises(r)

Spec == Init /\ [][Next]_vars

\* ------------------------------------------------------- reading the history
IsFinalReply(body) ==
  \/ body = InformationalBody
  \/ StartsWith(body, AnalysisPrefix)

GotFinalReply(r) == \E b \in Range(sent[r]) : IsFinalReply(b)

Finished(r) == pc[r] \in {"returned", "raised"}

Succeeded(r) == pc[r] = "returned" /\ outcome[r].status = "success"

\* run r2 is a later delivery of the message that run r1 processed to the end
Redelivery(r1, r2) ==
  /\ r1 \in prior[r2]
  /\ Succeeded(r1)
  /\ payload[r2].MessageSid = payload[r1].MessageSid
  /\ payload[r2].From = payload[r1].From

SameClassification(r1, r2) ==
  /\ loc[r2].intent # None
  /\ loc[r2].company_id = loc[r1].company_id
  /\ loc[r2].intent = loc[r1].intent
  /\ loc[r2].tag = loc[r1].tag

\* the second run ends at the existence check of its first upload and leaves
\* the bucket alone
RejectedAtFirstWrite(r) ==
  /\ ~Succeeded(r)
  /\ pc[r] \notin {"put_object", "final"}
  /\ puts[r] = <<>>
  /\ CountCalls(r, "put_object") = 0
  /\ CountCalls(r, "head_object") <= 1
  /\ (Finished(r) /\ Called(r, "head_object")) =>
        outcome[r].exc \in {"FileExistsError", "ClientError"}

C2_PutAtMostOnce == overwritten = {}

\* C3: over all deliveries of one message, at most one final reply is sent
\* and at most one delivery writes artifacts.
C3_NoDuplicates ==
  \A r1, r2 \in Runs :
    (r1 # r2 /\ payload[r1].MessageSid # None
             /\ payload[r1].MessageSid = payload[r2].MessageSid) =>
      /\ ~(GotFinalReply(r1) /\ GotFinalReply(r2))
      /\ ~(puts[r1] # <<>> /\ puts[r2] # <<>>)

\* the tenant lookup of run r was made and gave no customer metadata
LookupFailed(r) ==
  /\ Called(r, "fetch_customer_metadata")
  /\ loc[r].company_id = None

\* C4: when the tenant lookup fails the run raises at once: the lookup is
\* its only call, nothing is sent, downloaded, classified or stored.
C4_LookupFailureAbortsBeforeAck ==
  \A r \in Runs :
    LookupFailed(r) =>
      /\ pc[r] = "raised"
      /\ calls[r] = << <<"fetch_customer_metadata", None>> >>
      /\ sent[r] = <<>>
      /\ puts[r] = <<>>

C4_Witness ==
  \E r \in Runs :
    /\ LookupFailed(r)
    /\ pc[r] = "raised"
    /\ get_phone_number(payload[r]) \in KnownPhones

\* the run raised out of S3Service.upload
UploadFailed(r) ==
  /\ pc[r] = "raised"
  /\ outcome[r].exc \in {"FileExistsError", "ClientError"}

\* C5: a run that raises after its acknowledgement went out has delivered to
\* the sender the acknowledgement and nothing else; after a failing upload
\* there is no further send_message call.
C5_FailureAfterAckIsSilent ==
  \A r \in Runs :
    /\ (pc[r] = "raised" /\ sent[r] # <<>>) =>
          /\ sent[r] = <<AckBody>>
          /\ ~GotFinalReply(r)
    /\ UploadFailed(r) =>
          /\ LastCall(r)[1] \in {"head_object", "put_object"}
          /\ CountCalls(r, "send_message") = 1

C5_Witness ==
  \E r \in Runs :
    /\ UploadFailed(r)
    /\ LastCall(r) = <<"put_object", "text_summary">>
    /\ sent[r] = <<AckBody>>

\* C6: no run calls send_message more than twice.
C6_AtMostTwoSends ==
  \A r \in Runs : CountCalls(r, "send_message") <= 2

C6_Witness ==
  \E r \in Runs :
    /\ Succeeded(r)
    /\ CountCalls(r, "send_message") = 2
    /\ Len(sent[r]) = 2

IgnorableTypes == {"image", "video", "document", "unknown"}

\* C7: a message that is neither text nor audio is never classified,
\* extracted or stored; its run sends the acknowledgement and the notice and
\* then returns the status "ignored".
C7_IgnoredSkipsPipeline ==
  \A r \in Runs :
    loc[r].message_type \in IgnorableTypes =>
      /\ pc[r] \in {"ack", "notice", "returned", "raised"}
      /\ ~Called(r, "extract_message_metadata")
      /\ ~Called(r, "structure_full_text")
      /\ ~Called(r, "head_object")
      /\ ~Called(r, "put_object")
      /\ puts[r] = <<>>
      /\ pc[r] = "returned" =>
            /\ outcome[r].status = "ignored"
            /\ sent[r] = <<AckBody, NoticeBody(loc[r].message_type)>>
      /\ (Len(sent[r]) = 2 /\ Finished(r)) => pc[r] = "returned"

C7_Witness ==
  \E r \in Runs :
    /\ loc[r].message_type = "image"
    /\ pc[r] = "returned"
    /\ outcome[r].status = "ignored"

\* the place of a call in the stage order of process_message
StageRank(c) ==
  CASE c[1] = "fetch_customer_metadata" -> 1
    [] c = <<"send_message", "ack">> -> 2
    [] c[1] = "download_media" -> 3
    [] c[1] = "transcribe" -> 4
    [] c[1] = "extract_message_metadata" -> 5
    [] c[1] = "structure_full_text" -> 6
    [] c[1] \in {"head_object", "put_object"} -> 7
    [] OTHER -> 8

IsStorageCall(c) == c[1] \in {"head_object", "put_object"}

\* the artifacts a run on this message and classification has to write
ExpectedArtifacts(r) ==
  (IF loc[r].message_type = "audio" THEN {"audio"} ELSE {})
    \cup {"full_text"}
    \cup (IF loc[r].intent \in {JOB_TO_BE_DONE, KNOWLEDGE_DOCUMENT}
            THEN {"text_summary"} ELSE {})

S3Calls(r) == SelectSeq(calls[r], IsStorageCall)

ArtifactRank(artifact) ==
  CASE artifact = "audio" -> 1
    [] artifact = "full_text" -> 2
    [] artifact = "text_summary" -> 3

\* the artifacts whose put_object succeeded in run r, in order
Written(r) == [i \in 1..Len(loc[r].s3_keys) |-> loc[r].s3_keys[i][1]]

\* C9: uploads go audio, then full_text, then text_summary, and an upload
\* is entered only when every earlier upload of the run has succeeded.
C9_WriteOrder ==
  \A r \in Runs :
    LET s3 == S3Calls(r) IN
    /\ \A i, j \in 1..Len(s3) :
          i < j => ArtifactRank(s3[i][2]) <= ArtifactRank(s3[j][2])
    /\ \A i \in 1..Len(s3) :
          s3[i][1] = "head_object" =>
            /\ loc[r].message_type = "audio" => ArtifactRank(s3[i][2]) = (i + 1) \div 2
            /\ loc[r].message_type = "text" => ArtifactRank(s3[i][2]) = (i + 3) \div 2
            \* every upload entered before this one has put its object
            /\ Len(puts[r]) >= (i - 1) \div 2
            /\ \A k \in 1..((i - 1) \div 2) :
                  /\ s3[2 * k] = <<"put_object", s3[2 * k - 1][2]>>
                  /\ Written(r)[k] = s3[2 * k][2]

C9_Witness ==
  \E r \in Runs :
    /\ Written(r) = <<"audio", "full_text", "text_summary">>
    /\ Len(S3Calls(r)) = 6

\* C10: a successful run has written, and reports in s3_keys, exactly:
\* audio iff the message is audio, full_text, and text_summary iff the
\* intent is one of the two structured intents.
C10_ArtifactSet ==
  \A r \in Runs :
    Succeeded(r) =>
      /\ Range(Written(r)) = ExpectedArtifacts(r)
      /\ Len(Written(r)) = Cardinality(ExpectedArtifacts(r))
      /\ Len(Written(r)) \in 1..3
      /\ puts[r] = [i \in 1..Len(loc[r].s3_keys) |-> loc[r].s3_keys[i][2]]
      /\ \A i \in 1..Len(loc[r].s3_keys) :
            /\ loc[r].s3_keys[i][2] = UploadKey(r, loc[r].s3_keys[i][1])
            /\ loc[r].s3_keys[i][2] \in DOMAIN bucket
      /\ (loc[r].structured_analysis # None) <=>
            (loc[r].intent \in {JOB_TO_BE_DONE, KNOWLEDGE_DOCUMENT})

C10_Witness ==
  \E r \in Runs :
    /\ Succeeded(r)
    /\ loc[r].message_type = "audio"
    /\ loc[r].intent = INTENT_OTHER
    /\ Written(r) = <<"audio", "full_text">>

StructuredIntents == {JOB_TO_BE_DONE, KNOWLEDGE_DOCUMENT}

\* C11: structure_full_text is invoked in a run if and only if the classified
\* intent is JOB_TO_BE_DONE or KNOWLEDGE_DOCUMENT (it is the call that follows
\* such a classification); for OTHER it is never invoked, the structured
\* document of the result is None, and the final reply is exactly the
\* informational template.
C11_ExtractorIffStructuredIntent ==
  \A r \in Runs :
    /\ Called(r, "structure_full_text") => loc[r].intent \in StructuredIntents
    /\ loc[r].intent \in StructuredIntents =>
          \/ pc[r] = "extract"
          \/ \E i \in 2..Len(calls[r]) :
                /\ calls[r][i - 1][1] = "extract_message_metadata"
                /\ calls[r][i][1] = "structure_full_text"
    /\ loc[r].intent = INTENT_OTHER =>
          /\ ~Called(r, "structure_full_text")
          /\ pc[r] # "extract"
          /\ loc[r].structured_analysis = None
          /\ \A i \in 2..Len(sent[r]) : sent[r][i] = InformationalBody
          /\ Succeeded(r) => sent[r] = <<AckBody, InformationalBody>>
    /\ (loc[r].intent \in StructuredIntents /\ Succeeded(r)) =>
          /\ loc[r].structured_analysis = get_structured_document_model(loc[r].intent)
          /\ sent[r][2] # InformationalBody

C11_Witness ==
  \E r \in Runs :
    /\ loc[r].intent = INTENT_OTHER
    /\ Succeeded(r)
    /\ Len(puts[r]) = 1
    /\ sent[r][2] = InformationalBody


\* ------------------------------------------- the structured reply, on its own
\* field texts of the documents the extractor may answer with
ShortText == "Blocked drain at unit 4"
\* a text that no longer fits together with the other fields
LongText == Repeat("A", 1500)
\* a text that exceeds the budget by itself
HugeText == Repeat("B", 1700)

ActionItemLists == {<<>>, <<"Order parts">>, <<"Order parts", "Call the owner">>}

JobsToBeDoneDocuments ==
  [class : {"JobsToBeDoneDocumentModel"}, summary : {ShortText, HugeText},
   job : {ShortText}, context : {ShortText, LongText},
   action_items : ActionItemLists]

KnowledgeDocuments ==
  [class : {"KnowledgeDocumentModel"}, title : {ShortText},
   summary : {ShortText, HugeText}, context : {ShortText, LongText}]

StructuredDocuments == JobsToBeDoneDocuments \cup KnowledgeDocuments

\* validate_s3_key puts no limit on the length of a tag
ReplyTags == {"leak-repair", Repeat("t", 1600)}

\* the prefix and suffix arguments of format_for_whatsapp: its defaults, and
\* the text process_message puts around the rendered document
Wrappings == {<<"", "">>, <<ReplyPrefix, ReplySuffix>>}

ReplyInit ==
  /\ Idle
  /\ app \in [fn : {"reply"}, doc : StructuredDocuments, tag : ReplyTags,
               wrapping : Wrappings, composed : {None}, sent : {None}]

\* format_for_whatsapp is applied to the document
ComposeReply ==
  /\ app.fn = "reply"
  /\ app.composed = None
  /\ app' = [app EXCEPT !.composed =
               format_for_whatsapp(app.doc, app.tag, app.wrapping[1], app.wrapping[2])]
  /\ UNCHANGED pipeline

\* process_message builds message_body for a structured document and hands
\* it to send_message
SendStructuredReply ==
  /\ app.fn = "reply"
  /\ app.sent = None
  /\ app' = [app EXCEPT !.sent = AnalysisBody(format(app.doc))]
  /\ UNCHANGED pipeline

ReplyNext == ComposeReply \/ SendStructuredReply

ReplySpec == ReplyInit /\ [][ReplyNext]_vars

\* C12: every final reply body handed to send_message, and every string the
\* reply composer produces, is at most 1600 characters long.
C12_ReplyWithinBudget ==
  app.fn = "reply" =>
    /\ app.sent # None => Len(app.sent) <= WHATSAPP_CHAR_LIMIT
    /\ app.composed # None => Len(app.composed) <= WHATSAPP_CHAR_LIMIT

\* the reply the three-tier fallback gives for a document: the full rendering
\* inside the surrounding text if that fits, else the truncated rendering if
\* that fits, else the minimal confirmation naming the tag
IsFirstFittingTier(body, doc, tag) ==
  LET full == ReplyPrefix \o format(doc) \o ReplySuffix
      truncated == ReplyPrefix \o format_truncated(doc) \o ReplySuffix
  IN IF Len(full) <= WHATSAPP_CHAR_LIMIT THEN body = full
     ELSE IF Len(truncated) <= WHATSAPP_CHAR_LIMIT THEN body = truncated
     ELSE body \in {MinimalConfirmation(tag),
                    ReplyPrefix \o MinimalConfirmation(tag) \o ReplySuffix}

\* C13: the final structured reply sent is the first of the three tiers
\* (full, truncated, minimal) that fits in 1600 characters.
C13_FirstFittingTierSent ==
  (app.fn = "reply" /\ app.sent # None) =>
    IsFirstFittingTier(app.sent, app.doc, app.tag)

\* ------------------------------------------ tag validation, on its own
\* the characters the raw tags examined are made of: a lower-case and an
\* upper-case letter, a digit, the separators, a dot and a punctuation mark
TagAlphabet == {"a", "B", "7", "-", "_", " ", ".", "!"}

\* length of the longest raw tag examined
MaxTagLen == 3

RECURSIVE StringsUpTo(_)
StringsUpTo(n) ==
  IF n = 0 THEN {""}
  ELSE LET shorter == StringsUpTo(n - 1)
       IN shorter \cup {s \o c : s \in shorter, c \in TagAlphabet}

TagInit ==
  /\ Idle
  /\ app \in [fn : {"validate_s3_key"}, v : StringsUpTo(MaxTagLen), result : {None}]

\* validate_s3_key returns the sanitized tag
TagAccepted ==
  /\ app.fn = "validate_s3_key"
  /\ app.result = None
  /\ validate_s3_key(app.v) # Rejected
  /\ app' = [app EXCEPT !.result = validate_s3_key(app.v)]
  /\ UNCHANGED pipeline

\* validate_s3_key raises ValueError
TagRejected ==
  /\ app.fn = "validate_s3_key"
  /\ app.result = None
  /\ validate_s3_key(app.v) = Rejected
  /\ app' = [app EXCEPT !.result = Rejected]
  /\ UNCHANGED pipeline

TagNext == TagAccepted \/ TagRejected

TagSpec == TagInit /\ [][TagNext]_vars

\* ^[a-z0-9]([a-z0-9.-]*[a-z0-9])?$
MatchesTagPattern(t) ==
  /\ Len(t) >= 1
  /\ IsAlnum(Char(t, 1))
  /\ IsAlnum(Char(t, Len(t)))
  /\ \A i \in 1..Len(t) : IsAlnum(Char(t, i)) \/ Char(t, i) \in {".", "-"}

\* C14: every tag that validate_s3_key accepts is stored in a form matching
\* ^[a-z0-9]([a-z0-9.-]*[a-z0-9])?$ : lower case, only letters, digits,
\* hyphen and dot, beginning and ending with a letter or a digit.
C14_StoredTagMatchesPattern ==
  (app.fn = "validate_s3_key" /\ app.result \notin {None, Rejected}) =>
    MatchesTagPattern(app.result)

\* the classifier of run r proposed a tag that sanitizes to the empty string
ProposedEmptyTag(r) ==
  \E i \in 1..Len(calls[r]) :
    /\ calls[r][i][1] = "extract_message_metadata"
    /\ calls[r][i][2] # None
    /\ sanitized(calls[r][i][2]) = ""

\* C15: when the classifier's raw tag sanitizes to the empty string the run
\* ends in the classification with a validation error: no tag or intent is
\* taken over (the tag is not defaulted), nothing is written and nothing but
\* the acknowledgement is sent.
C15_EmptyTagIsFatal ==
  \A r \in Runs :
    ProposedEmptyTag(r) =>
      /\ pc[r] = "raised"
      /\ outcome[r].exc = "ValidationError"
      /\ LastCall(r)[1] = "extract_message_metadata"
      /\ loc[r].tag = None
      /\ loc[r].intent = None
      /\ ~Called(r, "head_object")
      /\ ~Called(r, "put_object")
      /\ puts[r] = <<>>
      /\ sent[r] = <<AckBody>>
      /\ ~GotFinalReply(r)

C15_Witness ==
  \E r \in Runs :
    /\ ProposedEmptyTag(r)
    /\ LastCall(r) = <<"extract_message_metadata", "?!">>
    /\ pc[r] = "raised"
    /\ outcome[r].exc = "ValidationError"

\* ------------------------------------------------ storage keys, on their own
\* company ids as the customer directory may hold them; one contains the
\* separator of the key
KeyCompanies == {"company-a", "company-b", "company-a/other"}

\* tags that pass validate_s3_key unchanged; one is the beginning of another
KeyTags == {"leak", "leak-repair", "leak.repair"}

\* message SIDs; one is the beginning of another
KeyMessageIds == {"SM00000001", "SM000000012", "MM00000001"}

\* what a key is built from
KeyInputs ==
  [company_id : KeyCompanies, intent : MessageIntent, tag : KeyTags,
   message_id : KeyMessageIds, artifact : Artifacts]

\* two uploads, of the same or of different messages
KeyInit ==
  /\ Idle
  /\ app \in [fn : {"key"}, a : KeyInputs, b : KeyInputs,
               key_a : {None}, key_b : {None}]

\* process_message builds the key of the first upload
BuildFirstKey ==
  /\ app.fn = "key"
  /\ app.key_a = None
  /\ app' = [app EXCEPT !.key_a =
               KeyOf(app.a.company_id, app.a.intent, app.a.tag,
                     app.a.message_id, app.a.artifact)]
  /\ UNCHANGED pipeline

\* process_message builds the key of the second upload
BuildSecondKey ==
  /\ app.fn = "key"
  /\ app.key_b = None
  /\ app' = [app EXCEPT !.key_b =
               KeyOf(app.b.company_id, app.b.intent, app.b.tag,
                     app.b.message_id, app.b.artifact)]
  /\ UNCHANGED pipeline

KeyNext == BuildFirstKey \/ BuildSecondKey

KeySpec == KeyInit /\ [][KeyNext]_vars

BothKeysBuilt == app.fn = "key" /\ app.key_a # None /\ app.key_b # None

\* C16: the key is determined by (company_id, intent, tag, message_id,
\* suffix): equal inputs give equal keys, and inputs that differ in any
\* component give different keys.
C16_KeyInjective ==
  BothKeysBuilt =>
    /\ app.a = app.b => app.key_a = app.key_b
    /\ app.a # app.b => app.key_a # app.key_b

C16_Witness ==
  /\ BothKeysBuilt
  /\ app.a.artifact = "full_text"
  /\ app.b = [app.a EXCEPT !.artifact = "text_summary"]
  /\ app.key_a # app.key_b

\* C17: a key starts with company_id, "/", the intent's value and "/", and
\* the keys of two uploads whose company or intent differ are different, even
\* for the same message_id and tag.
C17_TenantIsolation ==
  BothKeysBuilt =>
    /\ StartsWith(app.key_a, app.a.company_id \o "/" \o app.a.intent \o "/")
    /\ StartsWith(app.key_b, app.b.company_id \o "/" \o app.b.intent \o "/")
    /\ (app.a.company_id # app.b.company_id \/ app.a.intent # app.b.intent) =>
          app.key_a # app.key_b

C17_Witness ==
  /\ BothKeysBuilt
  /\ app.a.company_id = "company-a"
  /\ app.b = [app.a EXCEPT !.company_id = "company-b"]
  /\ app.key_a # app.key_b

\* C18: the rendered document of a run is stored under the key
\* key_prefix + "_text_summary.txt", with an underscore before text_summary.
C18_SummaryKeyUnderscore ==
  \A r \in Runs :
    \A i \in 1..Len(loc[r].s3_keys) :
      loc[r].s3_keys[i][1] = "text_summary" =>
        loc[r].s3_keys[i][2] =
          key_prefix(loc[r].company_id, loc[r].intent, loc[r].tag, message_id(r))
            \o "_text_summary.txt"

\* ------------------------------------------------------ the read-side API
\* str.split on a one-character separator
RECURSIVE split(_, _)
split(s, sep) ==
  IF \A i \in 1..Len(s) : Char(s, i) # sep THEN <<s>>
  ELSE LET i == CHOOSE k \in 1..Len(s) :
                  Char(s, k) = sep /\ \A j \in 1..(k - 1) : Char(s, j) # sep
       IN <<SubSeq(s, 1, i - 1)>> \o split(SubSeq(s, i + 1, Len(s)), sep)

\* sep.join(parts)
RECURSIVE join(_, _)
join(parts, sep) ==
  IF parts = <<>> THEN ""
  ELSE IF Len(parts) = 1 THEN parts[1]
  ELSE parts[1] \o sep \o join(Tail(parts), sep)

\* part.startswith(("SM", "MM")) and len(part) >= 10
LooksLikeSid(part) ==
  (StartsWith(part, "SM") \/ StartsWith(part, "MM")) /\ Len(part) >= 10

\* the parts of a file name before the first part that looks like a SID,
\* joined again: the tag the read side shows
TagOfParts(parts) ==
  LET sids == {i \in 1..Len(parts) : LooksLikeSid(parts[i])}
  IN IF sids = {} THEN "unknown"
     ELSE LET i == CHOOSE k \in sids : \A j \in sids : k <= j
          IN IF i = 1 THEN "unknown" ELSE join(SubSeq(parts, 1, i - 1), "_")

\* list_objects_ids_only, for one listed key: the message_id and tag it is
\* grouped under; message_id None: the key is skipped
ParseListedKey(key) ==
  LET key_parts == split(key, "/")
      parts == split(key_parts[Len(key_parts)], "_")
      sids == {i \in 1..Len(parts) : LooksLikeSid(parts[i])}
  IN IF Len(key_parts) < 3 \/ Len(parts) < 2 \/ sids = {}
       THEN [message_id |-> None, tag |-> None]
       ELSE [message_id |-> parts[CHOOSE k \in sids : \A j \in sids : k <= j],
             tag |-> TagOfParts(parts)]

\* list_objects_ids_only: the loop over result.files filling message_groups
RECURSIVE GroupFiles(_, _)
GroupFiles(files, message_groups) ==
  IF files = <<>> THEN message_groups
  ELSE LET parsed == ParseListedKey(Head(files))
           known == {i \in 1..Len(message_groups) :
                       message_groups[i].message_id = parsed.message_id}
       IN IF parsed.message_id = None THEN GroupFiles(Tail(files), message_groups)
          ELSE IF known = {}
            THEN GroupFiles(Tail(files),
                   Append(message_groups,
                          [message_id |-> parsed.message_id, tag |-> parsed.tag,
                           file_count |-> 1]))
          ELSE GroupFiles(Tail(files),
                 [i \in 1..Len(message_groups) |->
                    IF i \in known
                      THEN [message_groups[i] EXCEPT !.file_count = @ + 1]
                      ELSE message_groups[i]])

\* a set of keys in the order of a listing
RECURSIVE Listing(_)
Listing(keys) ==
  IF keys = {} THEN <<>>
  ELSE LET key == CHOOSE k \in keys : TRUE
       IN <<key>> \o Listing(keys \ {key})

\* list_objects: the keys of the bucket under company_id/message_intent/
list_objects(keys, company_id, message_intent) ==
  Listing({k \in keys : StartsWith(k, company_id \o "/" \o message_intent \o "/")})

\* list_objects_ids_only: the message_ids of S3ListIdsResponse
list_objects_ids_only(keys, company_id, message_intent) ==
  GroupFiles(list_objects(keys, company_id, message_intent), <<>>)

\* list_files_by_message_id: the file belongs to the message
BelongsToMessage(filename, mid) ==
  \/ Contains(filename, "_" \o mid \o "_")
  \/ StartsWith(filename, mid \o "_")

\* list_files_by_message_id: the type of a file, None when no ending matches
file_type(filename) ==
  IF EndsWith(filename, "_audio.ogg") THEN "audio"
  ELSE IF EndsWith(filename, "_full_text.txt") THEN "full_text"
  ELSE IF EndsWith(filename, ".text_summary.txt") THEN "text_summary"
  ELSE None

\* key.split("/")[-1]
FileName(key) == LET key_parts == split(key, "/") IN key_parts[Len(key_parts)]

\* list_files_by_message_id: the listed keys that go into matching_files
MatchingKeys(files, mid) ==
  LET Matches(key) ==
        /\ BelongsToMessage(FileName(key), mid)
        /\ file_type(FileName(key)) # None
  IN SelectSeq(files, Matches)

\* the answer "no artifacts": list_files_by_message_id returns None
NotFound == [found |-> FALSE, files |-> <<>>]

\* list_files_by_message_id: the loop over the intents, which returns at the
\* first intent with matching files
RECURSIVE SearchIntents(_, _, _, _)
SearchIntents(keys, company_id, mid, intents) ==
  IF intents = <<>> THEN NotFound
  ELSE LET matching == MatchingKeys(list_objects(keys, company_id, Head(intents)),
                                    mid)
       IN IF matching # <<>>
            THEN [found |-> TRUE, message_id |-> mid,
                  company_id |-> company_id, intent |-> Head(intents),
                  tag |-> TagOfParts(split(FileName(matching[1]), "_")),
                  files |-> [i \in 1..Len(matching) |->
                               [key |-> matching[i],
                                type |-> file_type(FileName(matching[i]))]]]
            ELSE SearchIntents(keys, company_id, mid, Tail(intents))

list_files_by_message_id(keys, company_id, mid) ==
  SearchIntents(keys, company_id, mid,
                <<JOB_TO_BE_DONE, KNOWLEDGE_DOCUMENT, INTENT_OTHER>>)

\* the artifacts process_message writes for a message of a type and intent
WrittenArtifacts(message_type, intent) ==
  (IF message_type = "audio" THEN {"audio"} ELSE {})
    \cup {"full_text"}
    \cup (IF get_structured_document_model(intent) # None
            THEN {"text_summary"} ELSE {})

\* the messages process_message has stored: tenant, classification, SID and
\* message type of each
ReadCompanies == {"company-a", "company-b"}
ReadTags == {"leak-repair", "leak.repair"}
ReadMessageIds == {"SM00000001", "MM00000002"}
StoredMessages ==
  [company_id : {"company-a"}, intent : MessageIntent, tag : ReadTags,
   message_id : ReadMessageIds, message_type : {"text", "audio"}]

\* the keys process_message wrote for a stored message
KeysOfMessage(m) ==
  {KeyOf(m.company_id, m.intent, m.tag, m.message_id, artifact) :
     artifact \in WrittenArtifacts(m.message_type, m.intent)}

KeysOfMessages(stored) == UNION {KeysOfMessage(m) : m \in stored}

\* the bucket holds the artifacts of one message, or of two messages with
\* different SIDs
ReadInit ==
  /\ Idle
  /\ \E stored \in SUBSET StoredMessages :
       /\ Cardinality(stored) \in {1, 2}
       /\ \A m1, m2 \in stored : m1 # m2 => m1.message_id # m2.message_id
       /\ app = [fn |-> "read", stored |-> stored, op |-> None,
                 company_id |-> None, intent |-> None, message_id |-> None,
                 ids |-> <<>>, files |-> NotFound]

\* the data API lists the message ids of a company and intent
ListIdsOnly(company_id, message_intent) ==
  /\ app.fn = "read"
  /\ app.op = None
  /\ app' = [app EXCEPT !.op = "list_objects_ids_only",
                        !.company_id = company_id, !.intent = message_intent,
                        !.ids = list_objects_ids_only(KeysOfMessages(app.stored),
                                                      company_id, message_intent)]
  /\ UNCHANGED pipeline

\* the data API asks for the artifacts of one message
ListFilesByMessageId(company_id, mid) ==
  /\ app.fn = "read"
  /\ app.op = None
  /\ app' = [app EXCEPT !.op = "list_files_by_message_id",
                        !.company_id = company_id, !.message_id = mid,
                        !.files = list_files_by_message_id(KeysOfMessages(app.stored),
                                                           company_id, mid)]
  /\ UNCHANGED pipeline

ReadNext ==
  \/ \E company_id \in ReadCompanies, message_intent \in MessageIntent :
        ListIdsOnly(company_id, message_intent)
  \/ \E company_id \in ReadCompanies, mid \in ReadMessageIds :
        ListFilesByMessageId(company_id, mid)

ReadSpec == ReadInit /\ [][ReadNext]_vars

\* C19: list_objects_ids_only gives, for the messages stored under the
\* company and intent listed, exactly one group each, with the message_id and
\* the tag the key was built from and with file_count equal to the number of
\* artifacts written for the message.
C19_KeyRoundTrip ==
  (app.fn = "read" /\ app.op = "list_objects_ids_only") =>
    LET listed == {m \in app.stored : /\ m.company_id = app.company_id
                                      /\ m.intent = app.intent}
    IN /\ Len(app.ids) = Cardinality(listed)
       /\ \A m \in listed :
             [message_id |-> m.message_id, tag |-> m.tag,
              file_count |-> Cardinality(WrittenArtifacts(m.message_type, m.intent))]
               \in Range(app.ids)

\* C20: list_files_by_message_id returns every artifact written for the
\* message under the company, each with its type, and answers "none" only
\* when the company holds no artifact of the message.
C20_AllArtifactsReturned ==
  (app.fn = "read" /\ app.op = "list_files_by_message_id") =>
    LET asked == {m \in app.stored : /\ m.company_id = app.company_id
                                     /\ m.message_id = app.message_id}
    IN IF asked = {} THEN ~app.files.found
       ELSE /\ app.files.found
            /\ Range(app.files.files) =
                  UNION {{[key |-> KeyOf(m.company_id, m.intent, m.tag,
                                         m.message_id, artifact),
                           type |-> artifact] :
                            artifact \in WrittenArtifacts(m.message_type, m.intent)} :
                         m \in asked}

\* the run raised out of download_media or transcribe
AcquisitionFailed(r) ==
  /\ pc[r] = "raised"
  /\ calls[r] # <<>>
  /\ LastCall(r)[1] \in {"download_media", "transcribe"}

UploadKeys == {"acme/job/SM1_full_text.txt", "acme/job/SM2_full_text.txt"}

UploadDatas == {"utf8:old", "utf8:new"}

\* what the bucket holds under each key (None: no such object)
UploadBuckets == [UploadKeys -> UploadDatas \cup {None}]

UploadInit ==
  /\ Idle
  /\ app \in {[fn |-> "upload", key |-> k, data |-> d, overwrite |-> o,
                objects |-> b, before |-> b, step |-> "head_object",
                head_calls |-> 0, put_calls |-> 0, result |-> None, exc |-> None] :
               k \in UploadKeys, d \in UploadDatas, o \in BOOLEAN, b \in UploadBuckets}

\* exists(): head_object answers, found or 404; upload raises FileExistsError
\* or goes on to put_object
UploadHeadObject ==
  /\ app.fn = "upload"
  /\ app.step = "head_object"
  /\ app' = IF upload_rejects(app.objects[app.key] # None, app.overwrite)
              THEN [app EXCEPT !.head_calls = @ + 1, !.step = "raised",
                               !.exc = "FileExistsError"]
              ELSE [app EXCEPT !.head_calls = @ + 1, !.step = "put_object"]
  /\ UNCHANGED pipeline

\* exists(): head_object fails with a ClientError other than 404, re-raised
UploadHeadObjectRaises ==
  /\ app.fn = "upload"
  /\ app.step = "head_object"
  /\ app' = [app EXCEPT !.head_calls = @ + 1, !.step = "raised", !.exc = "ClientError"]
  /\ UNCHANGED pipeline

\* put_object stores the data; upload returns the key
UploadPutObject ==
  /\ app.fn = "upload"
  /\ app.step = "put_object"
  /\ app' = [app EXCEPT !.put_calls = @ + 1, !.step = "returned",
                         !.objects = [@ EXCEPT ![app.key] = app.data],
                         !.result = app.key]
  /\ UNCHANGED pipeline

\* put_object fails
UploadPutObjectRaises ==
  /\ app.fn = "upload"
  /\ app.step = "put_object"
  /\ app' = [app EXCEPT !.put_calls = @ + 1, !.step = "raised", !.exc = "ClientError"]
  /\ UNCHANGED pipeline

UploadNext ==
  \/ UploadHeadObject
  \/ UploadHeadObjectRaises
  \/ UploadPutObject
  \/ UploadPutObjectRaises

UploadSpec == UploadInit /\ [][UploadNext]_vars

UploadEnded == app.step \in {"returned", "raised"}

\* C22: upload with overwrite=False on an existing key raises FileExistsError
\* with no put_object and the bucket unchanged; with overwrite=True, or on an
\* absent key, it issues exactly one put_object and returns the key (unless
\* boto3 itself fails).
C22_UploadOverwriteGuard ==
  (app.fn = "upload" /\ UploadEnded) =>
    LET existed == app.before[app.key] # None
    IN /\ app.head_calls = 1
       /\ (existed /\ ~app.overwrite) =>
             /\ app.step = "raised"
             /\ app.exc \in {"FileExistsError", "ClientError"}
             /\ app.put_calls = 0
             /\ app.objects = app.before
       /\ (app.exc = "FileExistsError") => (existed /\ ~app.overwrite)
       /\ ((app.overwrite \/ ~existed) /\ app.exc # "ClientError") =>
             /\ app.step = "returned"
             /\ app.put_calls = 1
             /\ app.result = app.key
             /\ app.objects = [app.before EXCEPT ![app.key] = app.data]
       /\ app.step = "returned" => (app.put_calls = 1 /\ app.result = app.key)

C22_Witness ==
  /\ app.fn = "upload"
  /\ app.step = "raised"
  /\ app.exc = "FileExistsError"
  /\ app.before[app.key] = "utf8:old"
  /\ app.data = "utf8:new"
  /\ app.objects = app.before

\* ------------------------------------------- handler.lambda_handler (batch)
\* One invocation of the queue-triggered handler: process_sqs_records makes a
\* task per record and gathers them on one event loop, so a task runs until
\* its next await and then any started task may go on.
MaxBatch == 2

\* what a record's body holds
RecordBodies == {"not json", "invalid payload", "unsupported", "processable"}

RecordIds == [i \in 1..(MaxBatch + 1) |-> <<"msg-id-1", "msg-id-2", "msg-id-3">>[i]]

Batches ==
  UNION {[1..n -> RecordBodies] : n \in 0..MaxBatch}

\* the awaits of process_message for a payload, in order
ProcessAwaits(body) ==
  IF body = "unsupported"
    THEN <<"fetch_customer_metadata", "send_message", "send_message">>
    ELSE <<"fetch_customer_metadata", "send_message", "extract_message_metadata",
           "upload", "send_message">>

\* result: the status of the dictionary process_message returned
NewTask == [at |-> 0, end |-> None, result |-> None]

NoResult == [status |-> None, message_id |-> None]

\* lambda_handler has not returned
NoResponse == [returned |-> FALSE, batchItemFailures |-> <<>>]

BatchInit ==
  /\ Idle
  /\ app \in {[fn |-> "lambda_handler",
                records |-> [i \in DOMAIN b |-> [messageId |-> RecordIds[i], body |-> b[i]]],
                tasks |-> [i \in DOMAIN b |-> NewTask],
                results |-> [i \in DOMAIN b |-> NoResult],
                response |-> NoResponse] : b \in Batches}

\* mutant: a body that is not JSON is skipped rather than reported
process_single_record_skipsBadJson(messageId, end) ==
  IF end \in {"returned", "JSONDecodeError"}
    THEN [status |-> "success", message_id |-> messageId]
    ELSE [status |-> "failed", message_id |-> messageId]

\* process_single_record: the dictionary it returns for the way its try
\* block ended
process_single_record(messageId, end) ==
  IF end = "returned"
    THEN [status |-> "success", message_id |-> messageId]
    ELSE [status |-> "failed", message_id |-> messageId]

\* the status process_message returns for a payload
result_status(body) == IF body = "unsupported" THEN "ignored" ELSE "success"

TaskEnds(i, end) ==
  app' = [app EXCEPT !.tasks[i].end = end,
                     !.tasks[i].result =
                        IF end = "returned" THEN result_status(app.records[i].body) ELSE None,
                     !.results[i] = process_single_record(app.records[i].messageId, end)]

\* mutant: a message that was ignored is reported as failed
AwaitReturns_failsIgnored(i) ==
  /\ app.fn = "lambda_handler"
  /\ i \in DOMAIN app.records
  /\ app.tasks[i].end = None
  /\ app.tasks[i].at >= 1
  /\ IF app.tasks[i].at < Len(ProcessAwaits(app.records[i].body))
       THEN app' = [app EXCEPT !.tasks[i].at = @ + 1]
       ELSE IF result_status(app.records[i].body) = "ignored"
         THEN app' = [app EXCEPT !.tasks[i].end = "returned",
                                 !.tasks[i].result = "ignored",
                                 !.results[i] = [status |-> "failed",
                                                 message_id |-> app.records[i].messageId]]
         ELSE TaskEnds(i, "returned")
  /\ UNCHANGED pipeline

\* a task starts (in record order): the body is parsed and validated, and
\* process_message runs up to its first await
StartRecord(i) ==
  /\ app.fn = "lambda_handler"
  /\ i \in DOMAIN app.records
  /\ app.tasks[i] = NewTask
  /\ \A j \in 1..(i - 1) : app.tasks[j] # NewTask
  /\ CASE app.records[i].body = "not json" -> TaskEnds(i, "JSONDecodeError")
       [] app.records[i].body = "invalid payload" -> TaskEnds(i, "ValidationError")
       [] OTHER -> app' = [app EXCEPT !.tasks[i].at = 1]
  /\ UNCHANGED pipeline

\* a suspended process_message is resumed with the awaited value and runs to
\* its next await, or returns its result
AwaitReturns(i) ==
  /\ app.fn = "lambda_handler"
  /\ i \in DOMAIN app.records
  /\ app.tasks[i].end = None
  /\ app.tasks[i].at >= 1
  /\ IF app.tasks[i].at = Len(ProcessAwaits(app.records[i].body))
       THEN TaskEnds(i, "returned")
       ELSE app' = [app EXCEPT !.tasks[i].at = @ + 1]
  /\ UNCHANGED pipeline

\* a suspended process_message is resumed with an exception, which leaves it
AwaitRaises(i) ==
  /\ app.fn = "lambda_handler"
  /\ i \in DOMAIN app.records
  /\ app.tasks[i].end = None
  /\ app.tasks[i].at >= 1
  /\ TaskEnds(i, "raised")
  /\ UNCHANGED pipeline

\* the message ids of the failed results, in record order
FailedItems(results) ==
  LET failed == SelectSeq(results, LAMBDA result : result.status = "failed")
  IN [k \in DOMAIN failed |-> [itemIdentifier |-> failed[k].message_id]]

\* gather has every result: lambda_handler answers
HandlerReturns ==
  /\ app.fn = "lambda_handler"
  /\ ~app.response.returned
  /\ \A i \in DOMAIN app.records : app.results[i] # NoResult
  /\ app' = [app EXCEPT !.response = [returned |-> TRUE,
                                       batchItemFailures |-> FailedItems(app.results)]]
  /\ UNCHANGED pipeline

BatchNext ==
  \/ \E i \in 1..MaxBatch : StartRecord(i)
  \/ \E i \in 1..MaxBatch : AwaitReturns(i)
  \/ \E i \in 1..MaxBatch : AwaitRaises(i)
  \/ HandlerReturns

BatchSpec == BatchInit /\ [][BatchNext]_vars

\* the records whose processing did not return a result
RaisedRecords ==
  {i \in DOMAIN app.records : app.tasks[i].end \notin {None, "returned"}}

\* C23: every record of a batch is processed whatever happens to the others,
\* and batchItemFailures holds the messageId of exactly the records whose
\* processing raised.
C23_BatchItemFailuresExact ==
  (app.fn = "lambda_handler" /\ app.response.returned) =>
    LET failures == app.response.batchItemFailures
    IN /\ \A i \in DOMAIN app.records : app.tasks[i].end # None
       /\ {failures[k].itemIdentifier : k \in DOMAIN failures}
            = {app.records[i].messageId : i \in RaisedRecords}
       /\ Len(failures) = Cardinality(RaisedRecords)

C23_Witness ==
  /\ app.fn = "lambda_handler"
  /\ app.response.returned
  /\ Len(app.records) = 2
  /\ app.tasks[1].end = "JSONDecodeError"
  /\ app.tasks[2].end = "returned"
  /\ app.response.batchItemFailures = <<[itemIdentifier |-> "msg-id-1"]>>

\* process_message of record i is suspended on an await
InFlight(i) ==
  /\ i \in DOMAIN app.records
  /\ app.tasks[i].end = None
  /\ app.tasks[i].at >= 1

\* C25: within one invocation the stages of two messages never interleave
\* (no message is in the middle of its processing while another one is).
C25_NoInterleaving ==
  app.fn = "lambda_handler" =>
    \A i, j \in DOMAIN app.records : (InFlight(i) /\ InFlight(j)) => i = j

\* ------------------------------------- get_message_type / get_media_url
\* The two accessors applied to payloads over the fields they read.
DeclaredTypes ==
  {None, "", "text", "audio", "AUDIO", "image", "video", "document", "file",
   "File", "sticker"}

MediaCounts == {"0", "1", "2"}

ContentTypes ==
  {None, "", "audio/ogg", "Audio/OGG", "image/jpeg", "video/mp4", "application/pdf"}

MediaUrls == {None, "https://media/1"}

TypeInit ==
  /\ Idle
  /\ app \in {[fn |-> "get_message_type",
                p |-> [MessageType |-> t, NumMedia |-> n,
                       MediaContentType0 |-> c, MediaUrl0 |-> u],
                typed |-> FALSE, message_type |-> None,
                asked |-> FALSE, media_url |-> None] :
               t \in DeclaredTypes, n \in MediaCounts, c \in ContentTypes, u \in MediaUrls}

GetMessageType ==
  /\ app.fn = "get_message_type"
  /\ ~app.typed
  /\ app' = [app EXCEPT !.typed = TRUE, !.message_type = get_message_type(app.p)]
  /\ UNCHANGED pipeline

GetMediaUrl ==
  /\ app.fn = "get_message_type"
  /\ ~app.asked
  /\ app' = [app EXCEPT !.asked = TRUE, !.media_url = get_media_url(app.p)]
  /\ UNCHANGED pipeline

TypeNext == GetMessageType \/ GetMediaUrl

TypeSpec == TypeInit /\ [][TypeNext]_vars

RecognizedTypes == {"text", "audio", "image", "video", "document"}

\* the declared type (lower-cased) and the MIME type of the first attachment
DeclaredType(p) == IF p.MessageType \in {None, ""} THEN None ELSE lower(p.MessageType)

MimeType(p) ==
  IF p.MediaContentType0 \in {None, ""} THEN None ELSE lower(p.MediaContentType0)

\* C24: a declared and recognized MessageType decides the kind (file means
\* document) whatever is attached; otherwise no media means text, and the
\* MIME prefix of the first attachment decides between audio, image, video
\* and document, a missing content type giving unknown; the media URL is
\* returned only when NumMedia > 0.
C24_ContentKindRouting ==
  app.fn = "get_message_type" =>
    LET p == app.p
        declared == DeclaredType(p)
        mime == MimeType(p)
    IN /\ app.typed =>
            /\ declared \in RecognizedTypes => app.message_type = declared
            /\ declared = "file" => app.message_type = "document"
            /\ declared \notin RecognizedTypes \cup {"file"} =>
                  /\ p.NumMedia = "0" => app.message_type = "text"
                  /\ (p.NumMedia # "0" /\ mime = None) => app.message_type = "unknown"
                  /\ (p.NumMedia # "0" /\ mime # None) =>
                        app.message_type =
                          CASE SubSeq(mime, 1, 6) = "audio/" -> "audio"
                            [] SubSeq(mime, 1, 6) = "image/" -> "image"
                            [] SubSeq(mime, 1, 6) = "video/" -> "video"
                            [] OTHER -> "document"
       /\ app.asked =>
            app.media_url = (IF p.NumMedia \in {"1", "2"} THEN p.MediaUrl0 ELSE None)

C24_Witness ==
  /\ app.fn = "get_message_type"
  /\ app.typed
  /\ app.asked
  /\ app.p.MessageType = "AUDIO"
  /\ app.p.NumMedia = "1"
  /\ app.p.MediaContentType0 = "image/jpeg"
  /\ app.message_type = "audio"
  /\ app.media_url = "https://media/1"

\* ------------------------------------------------------- text acquisition
\* run r handles a text message and is past the acquisition of its content
TextAcquired(r) ==
  /\ loc[r].message_type = "text"
  /\ sent[r] # <<>>

\* C26: for a text message the text handed to the classifier is Body as
\* received and the bytes stored as full_text are its UTF-8 encoding; an
\* empty body is content like any other: such a run fails only when one of
\* the services it calls fails.
C26_TextBodyVerbatim ==
  \A r \in Runs :
    TextAcquired(r) =>
      /\ loc[r].full_text = payload[r].Body
      /\ \A i \in 1..Len(loc[r].s3_keys) :
            loc[r].s3_keys[i][1] = "full_text" =>
              /\ loc[r].s3_keys[i][2] \in DOMAIN bucket
              /\ bucket[loc[r].s3_keys[i][2]] = Encode(payload[r].Body)
      /\ (payload[r].Body = "" /\ pc[r] = "raised") =>
            /\ outcome[r].exc # "AttributeError"
            /\ LastCall(r)[1] \in {"extract_message_metadata", "structure_full_text",
                                    "head_object", "put_object", "send_message"}

C26_Witness ==
  \E r \in Runs :
    /\ payload[r] = EmptyBodyPayload
    /\ pc[r] = "returned"
    /\ outcome[r].status = "success"
    /\ \E i \in 1..Len(loc[r].s3_keys) :
          /\ loc[r].s3_keys[i][1] = "full_text"
          /\ bucket[loc[r].s3_keys[i][2]] = Encode("")

\* ----------------------------- CustomerLookupClient.fetch_customer_metadata
\* One call of fetch_customer_metadata, over what the GET can come back with.
Absent == "<absent>"

Null == "<null>"

IdentityFields == {"customer_id", "company_id", "company_name"}

\* the JSON objects examined: each identity field is a string, null or absent
JsonObjects ==
  [IdentityFields -> {Absent, Null}]
    \cup {[customer_id |-> a, company_id |-> b, company_name |-> c] :
            a \in {"cust-1", Absent}, b \in {"company-a", Null}, c \in {"Acme", Absent}}

LookupResponses ==
  {[transport |-> "HTTPError", status_code |-> 0, json |-> "none", body |-> <<>>]}
    \cup {[transport |-> "ok", status_code |-> c, json |-> "invalid", body |-> <<>>] :
            c \in {200, 201, 400, 401, 404, 500}}
    \cup {[transport |-> "ok", status_code |-> c, json |-> "array", body |-> <<>>] :
            c \in {200, 201, 400, 401, 404, 500}}
    \cup {[transport |-> "ok", status_code |-> c, json |-> "object", body |-> b] :
            c \in {200, 201, 400, 401, 404, 500}, b \in JsonObjects}

NoMetadata == [customer_id |-> None, company_id |-> None, company_name |-> None]

FetchRaised(exc) == [raised |-> TRUE, exc |-> exc, value |-> NoMetadata]

\* CustomerMetadata.model_validate: three required str fields
model_validate(response) ==
  IF /\ response.json = "object"
     /\ \A f \in IdentityFields : response.body[f] \notin {Absent, Null}
    THEN [raised |-> FALSE, exc |-> None, value |-> response.body]
    ELSE FetchRaised("ValidationError")

\* mutant: a customer that is not found gets a default identity
fetch_customer_metadata_defaultIdentity(response) ==
  IF response.transport = "ok" /\ response.status_code = 404
    THEN [raised |-> FALSE, exc |-> None,
          value |-> [customer_id |-> "unknown", company_id |-> "default",
                     company_name |-> "unknown"]]
    ELSE IF response.transport = "ok" /\ response.status_code = 200
              /\ response.json # "invalid"
      THEN model_validate(response)
      ELSE FetchRaised("ValueError")

\* fetch_customer_metadata, as a function of the response to its GET
fetch_customer_metadata(response) ==
  IF response.transport # "ok" THEN FetchRaised("ValueError")
  ELSE IF response.status_code \in {404, 401, 400} THEN FetchRaised("ValueError")
  ELSE IF response.status_code # 200 THEN FetchRaised("ValueError")
  ELSE IF response.json = "invalid" THEN FetchRaised("ValueError")
  ELSE model_validate(response)

FetchInit ==
  /\ Idle
  /\ app \in {[fn |-> "fetch_customer_metadata", response |-> response,
                ended |-> FALSE, result |-> FetchRaised(None)] :
               response \in LookupResponses}

FetchReturns ==
  /\ app.fn = "fetch_customer_metadata"
  /\ ~app.ended
  /\ ~fetch_customer_metadata(app.response).raised
  /\ app' = [app EXCEPT !.ended = TRUE, !.result = fetch_customer_metadata(app.response)]
  /\ UNCHANGED pipeline

FetchRaises ==
  /\ app.fn = "fetch_customer_metadata"
  /\ ~app.ended
  /\ fetch_customer_metadata(app.response).raised
  /\ app' = [app EXCEPT !.ended = TRUE, !.result = fetch_customer_metadata(app.response)]
  /\ UNCHANGED pipeline

FetchNext == FetchReturns \/ FetchRaises

FetchSpec == FetchInit /\ [][FetchNext]_vars

\* the response is a 200 whose body names all three identity fields
CompleteIdentity(response) ==
  /\ response.transport = "ok"
  /\ response.status_code = 200
  /\ response.json = "object"
  /\ response.body.customer_id \notin {Absent, Null}
  /\ response.body.company_id \notin {Absent, Null}
  /\ response.body.company_name \notin {Absent, Null}

\* C27: fetch_customer_metadata returns an identity only for a 200 response
\* whose body holds customer_id, company_id and company_name, and then it is
\* that identity; in every other case it raises and yields no identity.
C27_ResolverFailsClosed ==
  (app.fn = "fetch_customer_metadata" /\ app.ended) =>
    /\ ~app.result.raised <=> CompleteIdentity(app.response)
    /\ ~app.result.raised => app.result.value = app.response.body
    /\ app.result.raised =>
          /\ app.result.value = NoMetadata
          /\ app.result.exc \in {"ValueError", "ValidationError"}

C27_Witness ==
  /\ app.fn = "fetch_customer_metadata"
  /\ app.ended
  /\ app.result.raised
  /\ app.response.status_code = 200
  /\ app.response.json = "object"
  /\ app.response.body.customer_id = "cust-1"
  /\ app.response.body.company_id = Null
  /\ app.response.body.company_name = "Acme"

\* --------------------------------------------- webhook_handler.lambda_handler
\* One invocation of the webhook handler on an API Gateway event, with the
\* customer lookup and the SQS send as steps of their own.
SignatureHeaders ==
  {[name |-> Absent, value |-> ""]}
    \cup {[name |-> n, value |-> v] :
            n \in {"X-Twilio-Signature", "x-twilio-signature", "X-TWILIO-SIGNATURE"},
            v \in {"", "hmac-of-request", "forged"}}

\* the form fields of the request body (Absent: the field is not there)
PostParams ==
  {[From |-> f, MessageSid |-> m, To |-> t] :
     f \in {Absent, "", "whatsapp:+61400000001", "whatsapp:+61499999999"},
     m \in {Absent, "SM00000001"},
     t \in {Absent, "whatsapp:+14155238886"}}

NoParams == [From |-> Absent, MessageSid |-> Absent, To |-> Absent]

WebhookEvents ==
  {[auth_token |-> a, queue_url |-> q, lookup_configured |-> c, header |-> h,
    raw_body |-> "form", post_params |-> b] :
     a \in BOOLEAN, q \in BOOLEAN, c \in BOOLEAN, h \in SignatureHeaders,
     b \in PostParams}
    \cup {[auth_token |-> a, queue_url |-> q, lookup_configured |-> c, header |-> h,
           raw_body |-> "", post_params |-> NoParams] :
            a \in BOOLEAN, q \in BOOLEAN, c \in BOOLEAN, h \in SignatureHeaders}

WebhookInit ==
  /\ Idle
  /\ app \in {[fn |-> "webhook", event |-> e, step |-> "received", lookup |-> None,
                statusCode |-> 0, send_calls |-> 0, queue |-> <<>>] :
               e \in WebhookEvents}

\* headers.get("X-Twilio-Signature") or headers.get("x-twilio-signature")
signature_of(header) ==
  IF header.name \in {"X-Twilio-Signature", "x-twilio-signature"} THEN header.value ELSE ""

\* RequestValidator.validate: the signature is the HMAC of URL and parameters
\* under the auth token
validate(signature) == signature = "hmac-of-request"

\* TwilioWebhookPayload(**post_params): MessageSid, From and To are required
\* (AccountSid goes with MessageSid here)
payload_validates(post_params) ==
  /\ post_params.From # Absent
  /\ post_params.MessageSid # Absent
  /\ post_params.To # Absent

Respond(statusCode) == app' = [app EXCEPT !.step = "responded", !.statusCode = statusCode]

\* mutant: the signature is validated before the sender is looked up
WebhookReceive_signatureFirst ==
  /\ app.fn = "webhook"
  /\ app.step = "received"
  /\ LET e == app.event
     IN IF ~e.auth_token THEN Respond(500)
        ELSE IF ~e.queue_url THEN Respond(500)
        ELSE IF ~e.lookup_configured THEN Respond(500)
        ELSE IF signature_of(e.header) = "" THEN Respond(401)
        ELSE IF e.raw_body = "" THEN Respond(400)
        ELSE IF ~validate(signature_of(e.header)) THEN Respond(403)
        ELSE IF e.post_params.From \in {Absent, ""} THEN Respond(400)
        ELSE app' = [app EXCEPT !.step = "lookup"]
  /\ UNCHANGED pipeline

\* lambda_handler up to the customer lookup
WebhookReceive ==
  /\ app.fn = "webhook"
  /\ app.step = "received"
  /\ LET e == app.event
     IN IF ~e.auth_token THEN Respond(500)
        ELSE IF ~e.queue_url THEN Respond(500)
        ELSE IF ~e.lookup_configured THEN Respond(500)
        ELSE IF signature_of(e.header) = "" THEN Respond(401)
        ELSE IF e.raw_body = "" THEN Respond(400)
        ELSE IF e.post_params.From \in {Absent, ""} THEN Respond(400)
        ELSE app' = [app EXCEPT !.step = "lookup"]
  /\ UNCHANGED pipeline

\* mutant: a known sender is trusted without a signature check
verified_request_trustsSender(e) ==
  IF ~payload_validates(e.post_params) THEN 400 ELSE 0

\* lambda_handler between the lookup and the send: the status it answers
\* with, or 0 when it goes on to send
verified_request(e) ==
  IF ~validate(signature_of(e.header)) THEN 403
  ELSE IF ~payload_validates(e.post_params) THEN 400
  ELSE 0

\* the lookup knows the sender: signature and payload are validated
WebhookLookupReturns ==
  /\ app.fn = "webhook"
  /\ app.step = "lookup"
  /\ app.event.post_params.From \in KnownPhones
  /\ IF verified_request(app.event) = 0
       THEN app' = [app EXCEPT !.lookup = "returned", !.step = "send"]
       ELSE app' = [app EXCEPT !.lookup = "returned", !.step = "responded",
                               !.statusCode = verified_request(app.event)]
  /\ UNCHANGED pipeline

\* the lookup raises (unknown sender, or the lookup service fails)
WebhookLookupRaises ==
  /\ app.fn = "webhook"
  /\ app.step = "lookup"
  /\ app' = [app EXCEPT !.lookup = "raised", !.step = "responded", !.statusCode = 401]
  /\ UNCHANGED pipeline

\* sqs.send_message puts the dumped payload on the queue
WebhookSendReturns ==
  /\ app.fn = "webhook"
  /\ app.step = "send"
  /\ app' = [app EXCEPT !.send_calls = @ + 1, !.queue = Append(@, app.event.post_params),
                         !.step = "responded", !.statusCode = 200]
  /\ UNCHANGED pipeline

\* sqs.send_message raises
WebhookSendRaises ==
  /\ app.fn = "webhook"
  /\ app.step = "send"
  /\ app' = [app EXCEPT !.send_calls = @ + 1, !.step = "responded", !.statusCode = 500]
  /\ UNCHANGED pipeline

WebhookNext ==
  \/ WebhookReceive
  \/ WebhookLookupReturns
  \/ WebhookLookupRaises
  \/ WebhookSendReturns
  \/ WebhookSendRaises

WebhookSpec == WebhookInit /\ [][WebhookNext]_vars

\* the request carries a signature header the handler reads, with the HMAC
SignedByTwilio(e) ==
  /\ e.header.name \in {"X-Twilio-Signature", "x-twilio-signature"}
  /\ e.header.value = "hmac-of-request"

\* C28: a message reaches the queue only when the lookup authorized the
\* sender, the signature validated and the payload validated; a sender the
\* lookup rejects gets 401 and a request with an invalid signature gets 403,
\* both with nothing queued; the 200 answer goes with exactly one message.
C28_QueueOnlyVerified ==
  app.fn = "webhook" =>
    /\ app.step # "responded" => app.queue = <<>>
    /\ app.queue # <<>> =>
          /\ app.lookup = "returned"
          /\ app.event.post_params.From \in KnownPhones
          /\ SignedByTwilio(app.event)
          /\ \A f \in {"From", "MessageSid", "To"} : app.event.post_params[f] # Absent
          /\ app.statusCode = 200
    /\ app.lookup = "raised" =>
          /\ app.statusCode = 401
          /\ app.send_calls = 0
          /\ app.queue = <<>>
    /\ (app.lookup = "returned" /\ ~SignedByTwilio(app.event)) =>
          /\ app.statusCode = 403
          /\ app.send_calls = 0
          /\ app.queue = <<>>
    /\ (app.step = "responded" /\ app.statusCode = 200) =>
          /\ app.send_calls = 1
          /\ app.queue = <<app.event.post_params>>

C28_Witness ==
  /\ app.fn = "webhook"
  /\ app.step = "responded"
  /\ app.lookup = "returned"
  /\ app.event.header.value = "forged"
  /\ app.statusCode = 403
  /\ app.queue = <<>>

\* ------------------------------------------------ data-api-authorizer
\* The invocations of the authorizer in one container: the module-level
\* _api_key_cache outlives an invocation.
MaxInvocations == 3

AcceptedHeaderNames == {"x-api-key", "X-API-Key", "X-Api-Key"}

\* the x-api-key header of an event, under one spelling of its name
ApiKeyHeaders ==
  {[name |-> Absent, value |-> ""]}
    \cup {[name |-> n, value |-> v] :
            n \in AcceptedHeaderNames \cup {"X-API-KEY"},
            v \in {"", "key-1", "key-2"}}

\* what get_secret_value and the parsing of SecretString come to
Retrievals ==
  {[kind |-> k, api_key |-> None] :
     k \in {"ClientError", "invalid JSON", "missing field", "null key"}}
    \cup {[kind |-> "ok", api_key |-> key] : key \in {"key-1", "key-2"}}

NoRetrieval == [kind |-> None, api_key |-> None]

NoInvocation ==
  [header |-> [name |-> Absent, value |-> ""], retrieval |-> NoRetrieval,
   cache_before |-> None, sm_called |-> FALSE, isAuthorized |-> FALSE]

AuthInit ==
  /\ Idle
  /\ app \in {[fn |-> "authorizer", secret_arn |-> a, cache |-> None,
                invocations |-> 0, sm_calls |-> 0, retrieved |-> 0,
                last |-> NoInvocation] : a \in BOOLEAN}

\* mutant: the header is found under any spelling of its name
provided_key_anySpelling(header) ==
  IF header.name # Absent THEN header.value ELSE ""

\* headers.get("x-api-key") or headers.get("X-API-Key") or headers.get("X-Api-Key")
provided_key(header) ==
  IF header.name \in AcceptedHeaderNames THEN header.value ELSE ""

\* mutant: the secret is fetched on every call
cache_is_empty_always(cache) == TRUE

\* get_api_key: _api_key_cache is None
cache_is_empty(cache) == cache = None

Invoked(header, retrieval, sm_called, cache, isAuthorized) ==
  app' = [app EXCEPT
            !.invocations = @ + 1,
            !.sm_calls = IF sm_called THEN @ + 1 ELSE @,
            !.retrieved = IF sm_called /\ retrieval.kind = "ok" THEN @ + 1 ELSE @,
            !.cache = cache,
            !.last = [header |-> header, retrieval |-> retrieval,
                      cache_before |-> app.cache, sm_called |-> sm_called,
                      isAuthorized |-> isAuthorized]]

\* no key in the headers: denied before get_api_key
DenyWithoutKey(header) ==
  /\ app.fn = "authorizer"
  /\ app.invocations < MaxInvocations
  /\ provided_key(header) = ""
  /\ Invoked(header, NoRetrieval, FALSE, app.cache, FALSE)
  /\ UNCHANGED pipeline

\* get_api_key answers from the cache
CompareWithCached(header) ==
  /\ app.fn = "authorizer"
  /\ app.invocations < MaxInvocations
  /\ provided_key(header) # ""
  /\ ~cache_is_empty(app.cache)
  /\ Invoked(header, NoRetrieval, FALSE, app.cache, provided_key(header) = app.cache)
  /\ UNCHANGED pipeline

\* get_api_key calls Secrets Manager and gets the secret's api_key (null
\* included), which goes into the cache
CompareWithRetrieved(header, retrieval) ==
  /\ app.fn = "authorizer"
  /\ app.invocations < MaxInvocations
  /\ provided_key(header) # ""
  /\ cache_is_empty(app.cache)
  /\ app.secret_arn
  /\ retrieval.kind \in {"ok", "null key"}
  /\ Invoked(header, retrieval, TRUE, retrieval.api_key,
             provided_key(header) = retrieval.api_key)
  /\ UNCHANGED pipeline

\* get_api_key raises: no ARN in the environment, a client error, a secret
\* that is not JSON or has no api_key
DenyOnRetrievalError(header, retrieval) ==
  /\ app.fn = "authorizer"
  /\ app.invocations < MaxInvocations
  /\ provided_key(header) # ""
  /\ cache_is_empty(app.cache)
  /\ IF app.secret_arn
       THEN /\ retrieval.kind \in {"ClientError", "invalid JSON", "missing field"}
            /\ Invoked(header, retrieval, TRUE, app.cache, FALSE)
       ELSE /\ retrieval = NoRetrieval
            /\ Invoked(header, retrieval, FALSE, app.cache, FALSE)
  /\ UNCHANGED pipeline

AuthNext ==
  \/ \E header \in ApiKeyHeaders : DenyWithoutKey(header)
  \/ \E header \in ApiKeyHeaders : CompareWithCached(header)
  \/ \E header \in ApiKeyHeaders, retrieval \in Retrievals :
        CompareWithRetrieved(header, retrieval)
  \/ \E header \in ApiKeyHeaders, retrieval \in Retrievals \cup {NoRetrieval} :
        DenyOnRetrievalError(header, retrieval)

AuthSpec == AuthInit /\ [][AuthNext]_vars

\* the last event carries a non-empty key under an accepted header name
KeyPresented ==
  /\ app.last.header.name \in AcceptedHeaderNames
  /\ app.last.header.value # ""

\* the key the last invocation had to compare with: the cached one, or the
\* one Secrets Manager gave it (None when it gave none)
KeyOnFile ==
  IF app.last.cache_before # None THEN app.last.cache_before
  ELSE IF app.secret_arn /\ app.last.retrieval.kind = "ok" THEN app.last.retrieval.api_key
  ELSE None

\* C29: the authorizer allows a request iff it carries a non-empty key under
\* an accepted header name and that key equals the key from Secrets Manager;
\* without a key it denies and does not call Secrets Manager, and it denies
\* whenever the key cannot be retrieved.
C29_AuthorizerFailsClosed ==
  (app.fn = "authorizer" /\ app.invocations > 0) =>
    /\ app.last.isAuthorized <=>
          (KeyPresented /\ KeyOnFile # None /\ app.last.header.value = KeyOnFile)
    /\ ~KeyPresented => (~app.last.isAuthorized /\ ~app.last.sm_called)
    /\ (app.last.cache_before = None
          /\ (~app.secret_arn \/ app.last.retrieval.kind # "ok")) =>
          ~app.last.isAuthorized

C29_Witness ==
  /\ app.fn = "authorizer"
  /\ app.invocations = 1
  /\ app.last.header = [name |-> "X-Api-Key", value |-> "key-1"]
  /\ app.last.retrieval.kind = "invalid JSON"
  /\ app.last.sm_called
  /\ ~app.last.isAuthorized

\* C30: once a key has been retrieved it is cached: Secrets Manager is not
\* called again and every later invocation compares with the cached key; a
\* failed retrieval leaves the cache empty and the next invocation that needs
\* the key calls Secrets Manager again.
C30_KeyCachedOnce ==
  (app.fn = "authorizer" /\ app.invocations > 0) =>
    /\ app.retrieved <= 1
    /\ app.retrieved = 1 <=> app.cache # None
    /\ app.last.cache_before # None =>
          /\ ~app.last.sm_called
          /\ app.cache = app.last.cache_before
          /\ app.last.isAuthorized <=> (KeyPresented /\ app.last.header.value = app.cache)
    /\ (app.last.sm_called /\ app.last.retrieval.kind # "ok") => app.cache = None
    /\ (app.last.cache_before = None /\ KeyPresented /\ app.secret_arn) =>
          app.last.sm_called

C30_Witness ==
  /\ app.fn = "authorizer"
  /\ app.invocations = 3
  /\ app.sm_calls = 2
  /\ app.retrieved = 1
  /\ app.last.cache_before = "key-1"
  /\ app.last.header.value = "key-2"
  /\ ~app.last.sm_called
  /\ ~app.last.isAuthorized

\* ----------------------------------------------------- partial artifact sets
\* the objects run r has put are in the bucket as it put them
WrittenObjectsKept(r) ==
  \A i \in 1..Len(loc[r].s3_keys) :
    /\ loc[r].s3_keys[i][2] \in DOMAIN bucket
    /\ bucket[loc[r].s3_keys[i][2]] = UploadData(r, loc[r].s3_keys[i][1])

\* C31: nothing is rolled back: whatever a run had written when it ended in
\* error stays in the bucket unchanged (and a run can fail with audio and
\* full_text written and text_summary not).
C31_NoRollback ==
  \A r \in Runs : pc[r] = "raised" => WrittenObjectsKept(r)

C31_Witness ==
  \E r \in Runs :
    /\ pc[r] = "raised"
    /\ outcome[r].status = "failed"
    /\ Written(r) = <<"audio", "full_text">>
    /\ LastCall(r) = <<"put_object", "text_summary">>
    /\ UploadKey(r, "audio") \in DOMAIN bucket
    /\ UploadKey(r, "full_text") \in DOMAIN bucket
    /\ UploadKey(r, "text_summary") \notin DOMAIN bucket

\* ------------------------------------------------------------ re-delivery
\* the position in calls[r] of the first call that satisfies Test (0: none)
FirstIndex(r, Test(_)) ==
  IF \E i \in 1..Len(calls[r]) : Test(calls[r][i])
    THEN CHOOSE i \in 1..Len(calls[r]) :
           /\ Test(calls[r][i])
           /\ \A j \in 1..(i - 1) : ~Test(calls[r][j])
    ELSE 0

IsAckCall(c) == c = <<"send_message", "ack">>

\* C32: the acknowledgement is not protected against re-delivery: a run on
\* a message that an earlier run completed sends the acknowledgement before
\* its first existence check, so when it then fails on the collision the
\* sender has two acknowledgements for the one message.
C32_AckSentAgainOnRedelivery ==
  \A r1, r2 \in Runs :
    Redelivery(r1, r2) =>
      /\ Called(r2, "head_object") =>
            /\ FirstIndex(r2, IsAckCall) > 0
            /\ FirstIndex(r2, IsAckCall) < FirstIndex(r2, IsStorageCall)
            /\ sent[r2] # <<>>
            /\ sent[r2][1] = AckBody
      /\ (pc[r2] = "raised" /\ outcome[r2].exc = "FileExistsError") =>
            /\ sent[r1][1] = AckBody
            /\ sent[r2] = <<AckBody>>

C32_Witness ==
  \E r1, r2 \in Runs :
    /\ Redelivery(r1, r2)
    /\ pc[r2] = "raised"
    /\ outcome[r2].exc = "FileExistsError"
    /\ sent[r1][1] = AckBody
    /\ sent[r2] = <<AckBody>>
    /\ CountCalls(r2, "head_object") = 1

\* the upload at which a run on a message of this type writes first
FirstWrite(message_type) == IF message_type = "audio" THEN "audio" ELSE "full_text"

\* C33: a second delivery of a message whose artifacts exist (same company,
\* intent and tag) collides at the first upload in write order, audio for an
\* audio message and full_text for a text message, and attempts no other
\* upload in that run.
C33_CollisionAtFirstWrite ==
  \A r1, r2 \in Runs :
    (Redelivery(r1, r2) /\ SameClassification(r1, r2) /\ S3Calls(r2) # <<>>) =>
      /\ S3Calls(r2) = << <<"head_object", FirstWrite(loc[r2].message_type)>> >>
      /\ pc[r2] = "raised"
      /\ outcome[r2].exc \in {"FileExistsError", "ClientError"}
      /\ puts[r2] = <<>>

C33_Witness ==
  \E r1, r2 \in Runs :
    /\ Redelivery(r1, r2)
    /\ SameClassification(r1, r2)
    /\ loc[r2].message_type = "audio"
    /\ loc[r2].intent = JOB_TO_BE_DONE
    /\ outcome[r2].exc = "FileExistsError"
    /\ LastCall(r2) = <<"head_object", "audio">>

\* run r2 is a later delivery of the message on which run r1 ended in error
\* after it had written something
RedeliveryAfterPartialFailure(r1, r2) ==
  /\ r1 \in prior[r2]
  /\ pc[r1] = "raised"
  /\ puts[r1] # <<>>
  /\ payload[r2].MessageSid = payload[r1].MessageSid
  /\ payload[r2].From = payload[r1].From

\* C34: once a run has written an artifact of a message and then failed,
\* every later delivery of the message that gets the same intent and tag
\* fails at its first upload, writes nothing and is reported as failed; no
\* delivery of the message has sent or sends the final reply.
C34_StuckAfterPartialFailure ==
  \A r1, r2 \in Runs :
    (RedeliveryAfterPartialFailure(r1, r2) /\ SameClassification(r1, r2)) =>
      /\ ~GotFinalReply(r1)
      /\ ~GotFinalReply(r2)
      /\ ~Succeeded(r2)
      /\ pc[r2] \notin {"put_object", "final"}
      /\ puts[r2] = <<>>
      /\ S3Calls(r2) # <<>> =>
            /\ S3Calls(r2) = << <<"head_object", FirstWrite(loc[r2].message_type)>> >>
            /\ pc[r2] = "raised"
            /\ outcome[r2].status = "failed"
            /\ outcome[r2].exc \in {"FileExistsError", "ClientError"}

C34_Witness ==
  \E r1, r2 \in Runs :
    /\ RedeliveryAfterPartialFailure(r1, r2)
    /\ SameClassification(r1, r2)
    /\ Written(r1) = <<"full_text">>
    /\ LastCall(r1) = <<"put_object", "text_summary">>
    /\ pc[r2] = "raised"
    /\ outcome[r2].exc = "FileExistsError"
    /\ LastCall(r2) = <<"head_object", "full_text">>

\* --------------------------------------------------- acknowledgement first
SendCalls(r) == SelectSeq(calls[r], LAMBDA c : c[1] = "send_message")

\* C35: the acknowledgement goes out whatever the content kind is: it is the
\* call that follows the lookup and the first message of every run that sends
\* one, and a run that returns "ignored" has sent exactly the
\* acknowledgement and then the notice.
C35_AckBeforeKindBranch ==
  \A r \in Runs :
    /\ Len(calls[r]) >= 2 => calls[r][2] = <<"send_message", "ack">>
    /\ sent[r] # <<>> => sent[r][1] = AckBody
    /\ (pc[r] = "returned" /\ outcome[r].status = "ignored") =>
          /\ loc[r].message_type \notin {"text", "audio"}
          /\ SendCalls(r) = << <<"send_message", "ack">>, <<"send_message", "notice">> >>
          /\ sent[r] = <<AckBody, NoticeBody(loc[r].message_type)>>

C35_Witness ==
  \E r \in Runs :
    /\ payload[r] = ImagePayload
    /\ pc[r] = "returned"
    /\ outcome[r].status = "ignored"
    /\ Len(sent[r]) = 2
    /\ sent[r][1] = "Message received, processing..."

\* C36: a record whose processing returned the status "ignored" counts as
\* processed: its result is a success and its messageId is not among the
\* batchItemFailures.
C36_IgnoredIsNotAFailure ==
  app.fn = "lambda_handler" =>
    \A i \in DOMAIN app.records :
      app.tasks[i].result = "ignored" =>
        /\ app.results[i] = [status |-> "success", message_id |-> app.records[i].messageId]
        /\ \A k \in DOMAIN app.response.batchItemFailures :
              app.response.batchItemFailures[k].itemIdentifier # app.records[i].messageId

C36_Witness ==
  /\ app.fn = "lambda_handler"
  /\ app.response.returned
  /\ Len(app.records) = 2
  /\ app.records[1].body = "unsupported"
  /\ app.tasks[1].result = "ignored"
  /\ app.tasks[2].end = "raised"
  /\ app.response.batchItemFailures = <<[itemIdentifier |-> "msg-id-2"]>>

\* ------------------------------------------ worker_handler.lambda_handler
\* The sequential handler: the records of the event are taken one after the
\* other, each with an event loop of its own.
WorkerInit ==
  /\ Idle
  /\ app \in {[fn |-> "worker_handler",
                records |-> [i \in DOMAIN b |-> [messageId |-> RecordIds[i], body |-> b[i]]],
                ends |-> <<>>, batch_item_failures |-> <<>>, returned |-> FALSE] :
               b \in Batches}

\* the record the for loop is at
CurrentRecord == app.records[Len(app.ends) + 1]

InLoop ==
  /\ app.fn = "worker_handler"
  /\ Len(app.ends) < Len(app.records)

\* mutant: every exception is reported for retry
worker_reports_everyFailure(end) == end # "returned"

\* whether the except clauses put the record among the failures
worker_reports(end) == end \notin {"returned", "JSONDecodeError"}

RecordEnds(end) ==
  app' = [app EXCEPT !.ends = Append(@, end),
                     !.batch_item_failures =
                        IF worker_reports(end)
                          THEN Append(@, [itemIdentifier |-> CurrentRecord.messageId])
                          ELSE @]

\* json.loads raises: the record is logged and skipped
WorkerSkipsMalformed ==
  /\ InLoop
  /\ CurrentRecord.body = "not json"
  /\ RecordEnds("JSONDecodeError")
  /\ UNCHANGED pipeline

\* model_validate raises
WorkerRejectsPayload ==
  /\ InLoop
  /\ CurrentRecord.body = "invalid payload"
  /\ RecordEnds("ValidationError")
  /\ UNCHANGED pipeline

\* asyncio.run(process_message(payload)) raises
WorkerProcessRaises ==
  /\ InLoop
  /\ CurrentRecord.body \in {"unsupported", "processable"}
  /\ RecordEnds("raised")
  /\ UNCHANGED pipeline

\* asyncio.run(process_message(payload)) returns a result
WorkerProcessReturns ==
  /\ InLoop
  /\ CurrentRecord.body \in {"unsupported", "processable"}
  /\ RecordEnds("returned")
  /\ UNCHANGED pipeline

\* the loop is over
WorkerReturns ==
  /\ app.fn = "worker_handler"
  /\ Len(app.ends) = Len(app.records)
  /\ ~app.returned
  /\ app' = [app EXCEPT !.returned = TRUE]
  /\ UNCHANGED pipeline

WorkerNext ==
  \/ WorkerSkipsMalformed
  \/ WorkerRejectsPayload
  \/ WorkerProcessRaises
  \/ WorkerProcessReturns
  \/ WorkerReturns

WorkerSpec == WorkerInit /\ [][WorkerNext]_vars

\* how often a messageId stands in batch_item_failures
TimesReported(messageId) ==
  Cardinality({k \in DOMAIN app.batch_item_failures :
                 app.batch_item_failures[k].itemIdentifier = messageId})

\* C37: in worker_handler a record whose body is not JSON is dropped, never
\* reported for retry, and the loop goes on to the records after it; a
\* record that fails in any other way is reported exactly once.
C37_MalformedDroppedOthersReported ==
  app.fn = "worker_handler" =>
    /\ \A i \in 1..Len(app.ends) :
          /\ app.ends[i] = "JSONDecodeError" => TimesReported(app.records[i].messageId) = 0
          /\ app.ends[i] = "returned" => TimesReported(app.records[i].messageId) = 0
          /\ app.ends[i] \in {"ValidationError", "raised"} =>
                TimesReported(app.records[i].messageId) = 1
    /\ app.returned => Len(app.ends) = Len(app.records)

C37_Witness ==
  /\ app.fn = "worker_handler"
  /\ app.returned
  /\ app.ends = <<"JSONDecodeError", "raised">>
  /\ app.batch_item_failures = <<[itemIdentifier |-> "msg-id-2"]>>

\* ------------------------------------------- one batch, one event loop
\* process_sqs_records gathers the records of a batch on one event loop: the
\* runs are the records of the batch and take turns at their awaits only.
\* S3Service.exists and upload await nothing that suspends (boto3 is called
\* synchronously), so a run that has entered its uploads keeps the loop until
\* its next await on Twilio.
HoldsLoop(r) == pc[r] \in {"head_object", "put_object"}

\* no other run is in the middle of its uploads
Turn(r) == \A q \in Runs \ {r} : ~HoldsLoop(q)

GatherNext ==
  \E r \in Runs :
    \/ \E p \in Payloads : Turn(r) /\ Deliver(r, p)
    \/ Turn(r) /\ LookupReturns(r)
    \/ Turn(r) /\ LookupRaises(r)
    \/ Turn(r) /\ AckReturns(r)
    \/ Turn(r) /\ AckRaises(r)
    \/ Turn(r) /\ DownloadReturns(r)
    \/ Turn(r) /\ DownloadRaises(r)
    \/ Turn(r) /\ TranscribeReturns(r)
    \/ Turn(r) /\ TranscribeRaises(r)
    \/ Turn(r) /\ NoticeReturns(r)
    \/ Turn(r) /\ NoticeRaises(r)
    \/ \E intent \in MessageIntent, raw_tag \in RawTags :
          Turn(r) /\ ClassifyReturns(r, intent, raw_tag)
    \/ \E raw_tag \in RawTags : Turn(r) /\ ClassifyRejectsTag(r, raw_tag)
    \/ Turn(r) /\ ClassifyRaises(r)
    \/ Turn(r) /\ ExtractReturns(r)
    \/ Turn(r) /\ ExtractRaises(r)
    \/ Turn(r) /\ HeadObject(r)
    \/ Turn(r) /\ HeadObjectRaises(r)
    \/ Turn(r) /\ PutObject(r)
    \/ Turn(r) /\ PutObjectRaises(r)
    \/ Turn(r) /\ FinalReturns(r)
    \/ Turn(r) /\ FinalRaises(r)

GatherSpec == Init /\ [][GatherNext]_vars

\* two records of the batch carry the same message and both runs got the
\* same classification
SameMessageSameKeys(r1, r2) ==
  /\ r1 # r2
  /\ payload[r1].MessageSid # None
  /\ payload[r1].MessageSid = payload[r2].MessageSid
  /\ loc[r1].intent # None
  /\ SameClassification(r1, r2)

\* C38: of two records of one batch with the same MessageSid and the same
\* classification, at most one writes each key and at most one succeeds;
\* when one has written, the other gets no further than its first upload,
\* where it fails at the existence check (or on a boto3 error), and is
\* reported as failed.
C38_OneWriterPerBatch ==
  \A r1, r2 \in Runs :
    SameMessageSameKeys(r1, r2) =>
      /\ Range(puts[r1]) \cap Range(puts[r2]) = {}
      /\ overwritten = {}
      /\ ~(Succeeded(r1) /\ Succeeded(r2))
      /\ (puts[r1] # <<>> /\ S3Calls(r2) # <<>>) =>
            /\ puts[r2] = <<>>
            /\ pc[r2] = "raised"
            /\ outcome[r2].status = "failed"
            /\ outcome[r2].exc \in {"FileExistsError", "ClientError"}
            /\ S3Calls(r2)[1] = <<"head_object", FirstWrite(loc[r2].message_type)>>
            /\ \A i \in 1..Len(S3Calls(r2)) :
                  S3Calls(r2)[i][2] = FirstWrite(loc[r2].message_type)
            /\ outcome[r2].exc = "ClientError" \/ LastCall(r2)[1] = "head_object"

C38_Witness ==
  \E r1, r2 \in Runs :
    /\ SameMessageSameKeys(r1, r2)
    /\ r2 \notin prior[r1]
    /\ r1 \notin prior[r2]
    /\ Succeeded(r1)
    /\ pc[r2] = "raised"
    /\ outcome[r2].exc = "FileExistsError"
    /\ loc[r2].message_type = "audio"

\* ----------------------------------------- webhook: lookup before signature
\* the request gets as far as the sender check: configuration, signature
\* header, body and From are there
ReachesLookup(e) ==
  /\ e.auth_token
  /\ e.queue_url
  /\ e.lookup_configured
  /\ e.header.name \in {"X-Twilio-Signature", "x-twilio-signature"}
  /\ e.header.value # ""
  /\ e.raw_body # ""
  /\ e.post_params.From \notin {Absent, ""}

\* C39: the sender is looked up before the signature is validated: every
\* request that carries a signature header, a body and a From field goes to
\* the lookup whatever its signature is worth; a sender the lookup rejects
\* gets 401 with a valid signature as with a forged one; 403 is answered
\* only after the lookup has accepted the sender.
C39_LookupBeforeSignature ==
  app.fn = "webhook" =>
    /\ (ReachesLookup(app.event) /\ app.step # "received") =>
          (app.step = "lookup" \/ app.lookup # None)
    /\ app.lookup = "raised" => (app.step = "responded" /\ app.statusCode = 401)
    /\ app.statusCode = 403 =>
          /\ app.lookup = "returned"
          /\ app.event.post_params.From \in KnownPhones
          /\ ~SignedByTwilio(app.event)

C39_Witness ==
  /\ app.fn = "webhook"
  /\ app.step = "responded"
  /\ app.event.post_params.From = "whatsapp:+61499999999"
  /\ app.lookup = "raised"
  /\ SignedByTwilio(app.event)
  /\ app.statusCode = 401

\* the lookup is in flight for a request whose signature is forged
UnverifiedLookupInFlight ==
  /\ app.fn = "webhook"
  /\ app.step = "lookup"
  /\ app.event.header.value = "forged"

\* --------------------------------------------- validate_s3_key, applied twice
\* A raw tag is validated and the accepted tag is validated once more.
TwiceInit ==
  /\ Idle
  /\ app \in [fn : {"validate_twice"}, v : StringsUpTo(MaxTagLen),
               once : {None}, twice : {None}]

\* the first validation accepts or raises
ValidateOnce ==
  /\ app.fn = "validate_twice"
  /\ app.once = None
  /\ app' = [app EXCEPT !.once = validate_s3_key(app.v)]
  /\ UNCHANGED pipeline

\* the accepted tag goes through validate_s3_key again
ValidateAgain ==
  /\ app.fn = "validate_twice"
  /\ app.once \notin {None, Rejected}
  /\ app.twice = None
  /\ app' = [app EXCEPT !.twice = validate_s3_key(app.once)]
  /\ UNCHANGED pipeline

TwiceNext == ValidateOnce \/ ValidateAgain

TwiceSpec == TwiceInit /\ [][TwiceNext]_vars

\* C40: tag sanitization is idempotent: a tag that validate_s3_key returned
\* is accepted by validate_s3_key and returned as it is.
C40_SanitizationIdempotent ==
  (app.fn = "validate_twice" /\ app.twice # None) =>
    /\ app.twice # Rejected
    /\ app.twice = app.once

C40_Witness ==
  /\ app.fn = "validate_twice"
  /\ app.v = "B_-"
  /\ app.once = "b"
  /\ app.twice = "b"

====
